---------------------------- MODULE Spec2Model ----------------------------
(***************************************************************************)
(* A model of the polyglotai chunking pipeline (scripts/chunk_ar.py,       *)
(* scripts/chunk_fr.py, scripts/hygiene.py).                               *)
(*                                                                         *)
(* Text is a sequence of characters.  A character is a one-element string  *)
(* for ASCII ("a", "[", " ") and the Unicode name of the code point for    *)
(* the non-ASCII characters the scripts single out ("ALEF" is U+0627,      *)
(* "FATHA" is U+064E, "TATWEEL" is U+0640, ...).                           *)
(*                                                                         *)
(* Each script has its own state machine, all over one set of variables;   *)
(* a machine that takes no part in a specification stays idle:             *)
(*   SpecChunk      the word-based chunk_text loop,                        *)
(*   SpecHygiene    one call of should_drop_chunk,                         *)
(*   Spec           the main loop of chunk_ar.py / chunk_fr.py,            *)
(*   SpecNormalize  Arabic normalization applied twice,                    *)
(*   SpecSections   find_section_starts and slice_sections,                *)
(*   SpecMerge      the sort and dedup of the section markers,             *)
(*   SpecMirror     chapter detection in extract_chapters.py and           *)
(*                  old/txt_to_sections.py,                                *)
(*   SpecPages      the writing loop of txt_to_sections,                   *)
(*   SpecClean      main of clean_chunks.py,                               *)
(*   SpecUpsert     upsert_with_retry of embed_upsert_v4.py,               *)
(*   SpecUpload     one batch of the upload scripts,                       *)
(*   SpecBuild      the character-count chunk_text of build_index.py.      *)
(***************************************************************************)
EXTENDS Integers, Sequences, FiniteSets, TLC

VARIABLES
    \* ---- chunk_text (chunk_ar.py:92-101, chunk_fr.py:15-25)
    ct_words,        \* words = text.split()
    ct_chunk_size,   \* parameter chunk_size
    ct_overlap,      \* parameter overlap
    ct_start,        \* local start
    ct_step,         \* local step
    ct_chunks,       \* local chunks (each chunk kept as its list of words)
    ct_pc,           \* "entry" | "loop" | "done"
    \* ---- one call of should_drop_chunk
    hy_script,       \* which definition is called: "chunk_ar" | "chunk_fr" | "hygiene"
    hy_lang,         \* argument lang (hygiene.py only)
    hy_title,        \* argument section_title
    hy_content,      \* argument content
    hy_min_chars,    \* argument min_chars (chunk_ar.py, chunk_fr.py)
    hy_min_words,    \* argument min_words (chunk_ar.py, chunk_fr.py)
    hy_result,       \* the returned pair (dropped, reason)
    hy_pc,           \* "call" | "returned" | "raised" (hygiene.py: the file cannot be loaded)
    \* ---- main() of chunk_ar.py / chunk_fr.py
    script,          \* "chunk_ar" | "chunk_fr"
    args,            \* the argparse namespace
    input,           \* the lines of --infile
    line_no,         \* how many lines the for loop has taken from fin
    count_rows,
    kept,
    dropped,
    stats_by_reason, \* dict reason -> count
    seen_hashes,
    fout,            \* the records written to --outfile, in order
    section_title,   \* of the row being chunked
    pack_id,
    page,
    chunks,          \* chunk_text(...) of the row being chunked
    idx,             \* the enumerate index i of the next chunk
    pc,              \* "start" | "read" | "chunk" | "done" | "crashed"
    report,          \* what the two final print calls show
    log,             \* history: the decision taken for every chunk candidate
    \* ---- Arabic normalization applied twice
    nz_fn,           \* "chunk_ar" (normalize_arabic) | "hygiene" (normalize_arabic_basic)
    nz_x,            \* the text x
    nz_once,         \* normalize(x)
    nz_twice,        \* normalize(normalize(x))
    nz_pc,           \* "call" | "once" | "twice" | "raised"
    \* ---- slice_sections of txt_to_sections_en_fr.py
    sc_lines,        \* text.splitlines()
    sc_eol,          \* text.endswith("\n"), TRUE for the empty text
    sc_lang,         \* lang
    sc_markers,      \* markers = find_section_starts(text, lang)
    sc_k,            \* the enumerate index i of the next marker
    sc_sections,     \* local sections
    sc_pc,           \* "call" | "slice" | "returned"
    \* ---- main() of clean_chunks.py
    cc_input,        \* the rows read_jsonl yields
    cc_pos,          \* how many rows the for loop has taken
    cc_kept,
    cc_discarded,
    cc_seen,         \* seen_hashes
    cc_fout,         \* the rows written to --outfile
    cc_fdisc,        \* the rows written to --discarded_outfile
    cc_pc,           \* "loop" | "done"
    \* ---- upsert_with_retry and the upsert loop of embed_upsert_v4.py
    up_retries,      \* parameter retries
    up_backoff,      \* parameter backoff
    up_work,         \* the (namespace, vectors) groups main upserts, in order
    up_k,            \* how many groups main has finished
    up_attempt,      \* loop variable attempt
    up_calls,        \* history: the index.upsert calls and how each ended
    up_sleeps,       \* history: the arguments of time.sleep
    up_counts,       \* per_ns_counts
    up_pc,           \* "main" | "try" | "failed" | "done" | "raised"
    \* ---- the sort and dedup of markers in find_section_starts
    mg_found,        \* markers, in the order of detection
    mg_markers,      \* the list returned
    mg_k,            \* the enumerate index of the next marker in slice_sections
    mg_sections,     \* the sections slice_sections has appended, by their marker
    mg_pc,           \* "found" | "slice" | "returned"
    \* ---- chunk_text of build_index.py
    bi_text,         \* text after normalize_text
    bi_chunk_size,   \* parameter chunk_size
    bi_overlap,      \* parameter overlap
    bi_start,        \* local start
    bi_chunks,       \* local chunks, each with the bounds of its window
    bi_turns,        \* history: the turns of the while loop taken so far
    bi_pc,           \* "loop" | "done"
    \* ---- one batch of main() of embed_upsert_v4.py / old/embed_to_pinecone.py
    ul_script,       \* "embed_upsert_v4" | "embed_to_pinecone"
    ul_batch,        \* the rows of the batch
    ul_by_ns,        \* by_ns as the list of its items, in insertion order
    ul_k,            \* how many items of by_ns were upserted
    ul_upserts,      \* history: the index.upsert calls that succeeded
    ul_pc,           \* "batch" | "upsert" | "done" | "aborted"
    \* ---- chapter detection of extract_chapters.py and old/txt_to_sections.py
    mr_lines,        \* text.splitlines()
    mr_chapters,     \* what extract_chapters returns
    mr_markers,      \* the chapter markers find_section_starts returns
    mr_pc,           \* "call" | "returned"
    \* ---- the writing loop of txt_to_sections
    pg_script,       \* "txt_to_sections_en_fr" | "txt_to_sections"
    pg_sections,     \* per section, the paragraphs split_paragraphs returns
    pg_s,            \* the section the outer loop is at
    pg_p,            \* the paragraph the inner loop is at
    page_counter,
    pg_out,          \* the records written
    pg_pc            \* "loop" | "done"

ct_vars == <<ct_words, ct_chunk_size, ct_overlap, ct_start, ct_step, ct_chunks, ct_pc>>

hy_vars == <<hy_script, hy_lang, hy_title, hy_content, hy_min_chars, hy_min_words,
             hy_result, hy_pc>>

m_vars == <<script, args, input, line_no, count_rows, kept, dropped, stats_by_reason,
            seen_hashes, fout, section_title, pack_id, page, chunks, idx, pc, report, log>>

nz_vars == <<nz_fn, nz_x, nz_once, nz_twice, nz_pc>>

sc_vars == <<sc_lines, sc_eol, sc_lang, sc_markers, sc_k, sc_sections, sc_pc>>

cc_vars == <<cc_input, cc_pos, cc_kept, cc_discarded, cc_seen, cc_fout, cc_fdisc, cc_pc>>

up_vars == <<up_retries, up_backoff, up_work, up_k, up_attempt, up_calls, up_sleeps,
             up_counts, up_pc>>

mg_vars == <<mg_found, mg_markers, mg_k, mg_sections, mg_pc>>

bi_vars == <<bi_text, bi_chunk_size, bi_overlap, bi_start, bi_chunks, bi_turns, bi_pc>>

ul_vars == <<ul_script, ul_batch, ul_by_ns, ul_k, ul_upserts, ul_pc>>

mr_vars == <<mr_lines, mr_chapters, mr_markers, mr_pc>>

pg_vars == <<pg_script, pg_sections, pg_s, pg_p, page_counter, pg_out, pg_pc>>

vars == <<ct_vars, hy_vars, m_vars, nz_vars, sc_vars, cc_vars, up_vars,
          mg_vars, bi_vars, ul_vars, mr_vars, pg_vars>>

\* a machine that takes no part in a specification stays as it is here
ChunkIdle ==
    /\ ct_words = <<>>
    /\ ct_chunk_size = 0
    /\ ct_overlap = 0
    /\ ct_start = 0
    /\ ct_step = 0
    /\ ct_chunks = <<>>
    /\ ct_pc = "idle"

HygieneIdle ==
    /\ hy_script = "idle"
    /\ hy_lang = ""
    /\ hy_title = <<>>
    /\ hy_content = <<>>
    /\ hy_min_chars = 0
    /\ hy_min_words = 0
    /\ hy_result = <<FALSE, "">>
    /\ hy_pc = "idle"

MainIdle ==
    /\ script = "idle"
    /\ args = <<>>
    /\ input = <<>>
    /\ line_no = 0
    /\ count_rows = 0
    /\ kept = 0
    /\ dropped = 0
    /\ stats_by_reason = <<>>
    /\ seen_hashes = {}
    /\ fout = <<>>
    /\ section_title = <<>>
    /\ pack_id = <<>>
    /\ page = 0
    /\ chunks = <<>>
    /\ idx = 0
    /\ pc = "idle"
    /\ report = <<>>
    /\ log = <<>>

NormalizeIdle ==
    /\ nz_fn = "idle"
    /\ nz_x = <<>>
    /\ nz_once = <<>>
    /\ nz_twice = <<>>
    /\ nz_pc = "idle"

SectionsIdle ==
    /\ sc_lines = <<>>
    /\ sc_eol = TRUE
    /\ sc_lang = ""
    /\ sc_markers = <<>>
    /\ sc_k = 0
    /\ sc_sections = <<>>
    /\ sc_pc = "idle"

CleanIdle ==
    /\ cc_input = <<>>
    /\ cc_pos = 0
    /\ cc_kept = 0
    /\ cc_discarded = 0
    /\ cc_seen = {}
    /\ cc_fout = <<>>
    /\ cc_fdisc = <<>>
    /\ cc_pc = "idle"

UpsertIdle ==
    /\ up_retries = 0
    /\ up_backoff = 0
    /\ up_work = <<>>
    /\ up_k = 0
    /\ up_attempt = 0
    /\ up_calls = <<>>
    /\ up_sleeps = <<>>
    /\ up_counts = <<>>
    /\ up_pc = "idle"

MergeIdle ==
    /\ mg_found = <<>>
    /\ mg_markers = <<>>
    /\ mg_k = 0
    /\ mg_sections = <<>>
    /\ mg_pc = "idle"

BuildIdle ==
    /\ bi_text = <<>>
    /\ bi_chunk_size = 0
    /\ bi_overlap = 0
    /\ bi_start = 0
    /\ bi_chunks = <<>>
    /\ bi_turns = 0
    /\ bi_pc = "idle"

UploadIdle ==
    /\ ul_script = "idle"
    /\ ul_batch = <<>>
    /\ ul_by_ns = <<>>
    /\ ul_k = 0
    /\ ul_upserts = <<>>
    /\ ul_pc = "idle"

MirrorIdle ==
    /\ mr_lines = <<>>
    /\ mr_chapters = <<>>
    /\ mr_markers = <<>>
    /\ mr_pc = "idle"

PagesIdle ==
    /\ pg_script = "idle"
    /\ pg_sections = <<>>
    /\ pg_s = 0
    /\ pg_p = 0
    /\ page_counter = 0
    /\ pg_out = <<>>
    /\ pg_pc = "idle"

\* what a step of one machine leaves alone
ct_others == <<hy_vars, m_vars, nz_vars, sc_vars, cc_vars, up_vars,
                mg_vars, bi_vars, ul_vars, mr_vars, pg_vars>>

hy_others == <<ct_vars, m_vars, nz_vars, sc_vars, cc_vars, up_vars,
                mg_vars, bi_vars, ul_vars, mr_vars, pg_vars>>

m_others == <<ct_vars, hy_vars, nz_vars, sc_vars, cc_vars, up_vars,
               mg_vars, bi_vars, ul_vars, mr_vars, pg_vars>>

nz_others == <<ct_vars, hy_vars, m_vars, sc_vars, cc_vars, up_vars,
                mg_vars, bi_vars, ul_vars, mr_vars, pg_vars>>

sc_others == <<ct_vars, hy_vars, m_vars, nz_vars, cc_vars, up_vars,
                mg_vars, bi_vars, ul_vars, mr_vars, pg_vars>>

cc_others == <<ct_vars, hy_vars, m_vars, nz_vars, sc_vars, up_vars,
                mg_vars, bi_vars, ul_vars, mr_vars, pg_vars>>

up_others == <<ct_vars, hy_vars, m_vars, nz_vars, sc_vars, cc_vars,
                mg_vars, bi_vars, ul_vars, mr_vars, pg_vars>>

mg_others == <<ct_vars, hy_vars, m_vars, nz_vars, sc_vars, cc_vars, up_vars,
                bi_vars, ul_vars, mr_vars, pg_vars>>

bi_others == <<ct_vars, hy_vars, m_vars, nz_vars, sc_vars, cc_vars, up_vars,
                mg_vars, ul_vars, mr_vars, pg_vars>>

ul_others == <<ct_vars, hy_vars, m_vars, nz_vars, sc_vars, cc_vars, up_vars,
                mg_vars, bi_vars, mr_vars, pg_vars>>

mr_others == <<ct_vars, hy_vars, m_vars, nz_vars, sc_vars, cc_vars, up_vars,
                mg_vars, bi_vars, ul_vars, pg_vars>>

pg_others == <<ct_vars, hy_vars, m_vars, nz_vars, sc_vars, cc_vars, up_vars,
                mg_vars, bi_vars, ul_vars, mr_vars>>

-----------------------------------------------------------------------------
(* Python built-ins used by the scripts *)

Max(a, b) == IF a >= b THEN a ELSE b

Min(a, b) == IF a <= b THEN a ELSE b

\* a slice that loses its last element
PySlice_Short(words, start, end) ==
    [j \in 1..(Min(end, Len(words)) - start - 1) |-> words[start + j]]

\* words[start:end] for start >= 0: a negative end counts from the end of the
\* list, and an end before start gives the empty list.
PySlice(words, start, end) ==
    LET n  == Len(words)
        e0 == IF end < 0 THEN Max(0, end + n) ELSE Min(end, n)
    IN  IF start < e0 THEN SubSeq(words, start + 1, e0) ELSE <<>>

-----------------------------------------------------------------------------
(* Characters and the str methods the scripts use *)

\* str.isspace(): the space and U+00A0
SpaceChars == {" ", "NO_BREAK_SPACE"}

IsSpace(c) == c \in SpaceChars

\* the ASCII letters that have a precomposed form with the acute accent
\* U+0301, and those forms (unicodedata: the canonical decompositions)
AcuteBases ==
    <<"a", "c", "e", "g", "i", "k", "l", "m", "n", "o", "p", "r", "s", "u", "w", "y", "z">>

CapitalAcuteBases ==
    <<"A", "C", "E", "G", "I", "K", "L", "M", "N", "O", "P", "R", "S", "U", "W", "Y", "Z">>

SmallAcute ==
    <<
      "SMALL_LETTER_A_WITH_ACUTE", "SMALL_LETTER_C_WITH_ACUTE",
      "SMALL_LETTER_E_WITH_ACUTE", "SMALL_LETTER_G_WITH_ACUTE",
      "SMALL_LETTER_I_WITH_ACUTE", "SMALL_LETTER_K_WITH_ACUTE",
      "SMALL_LETTER_L_WITH_ACUTE", "SMALL_LETTER_M_WITH_ACUTE",
      "SMALL_LETTER_N_WITH_ACUTE", "SMALL_LETTER_O_WITH_ACUTE",
      "SMALL_LETTER_P_WITH_ACUTE", "SMALL_LETTER_R_WITH_ACUTE",
      "SMALL_LETTER_S_WITH_ACUTE", "SMALL_LETTER_U_WITH_ACUTE",
      "SMALL_LETTER_W_WITH_ACUTE", "SMALL_LETTER_Y_WITH_ACUTE",
      "SMALL_LETTER_Z_WITH_ACUTE">>

CapitalAcute ==
    <<
      "CAPITAL_LETTER_A_WITH_ACUTE", "CAPITAL_LETTER_C_WITH_ACUTE",
      "CAPITAL_LETTER_E_WITH_ACUTE", "CAPITAL_LETTER_G_WITH_ACUTE",
      "CAPITAL_LETTER_I_WITH_ACUTE", "CAPITAL_LETTER_K_WITH_ACUTE",
      "CAPITAL_LETTER_L_WITH_ACUTE", "CAPITAL_LETTER_M_WITH_ACUTE",
      "CAPITAL_LETTER_N_WITH_ACUTE", "CAPITAL_LETTER_O_WITH_ACUTE",
      "CAPITAL_LETTER_P_WITH_ACUTE", "CAPITAL_LETTER_R_WITH_ACUTE",
      "CAPITAL_LETTER_S_WITH_ACUTE", "CAPITAL_LETTER_U_WITH_ACUTE",
      "CAPITAL_LETTER_W_WITH_ACUTE", "CAPITAL_LETTER_Y_WITH_ACUTE",
      "CAPITAL_LETTER_Z_WITH_ACUTE">>

LatinLower ==
    <<"a", "b", "c", "d", "e", "f", "g", "h", "i", "j", "k", "l", "m",
      "n", "o", "p", "q", "r", "s", "t", "u", "v", "w", "x", "y", "z",
      "SMALL_LETTER_A_WITH_GRAVE", "SMALL_LETTER_E_WITH_GRAVE">> \o SmallAcute

LatinUpper ==
    <<"A", "B", "C", "D", "E", "F", "G", "H", "I", "J", "K", "L", "M",
      "N", "O", "P", "Q", "R", "S", "T", "U", "V", "W", "X", "Y", "Z",
      "CAPITAL_LETTER_A_WITH_GRAVE", "CAPITAL_LETTER_E_WITH_GRAVE">> \o CapitalAcute

\* the Arabic letters (category Lo) that occur in the scripts
ArabicLetters ==
    {"ALEF", "ALEF_WITH_HAMZA_ABOVE", "ALEF_WITH_HAMZA_BELOW",
     "ALEF_WITH_MADDA_ABOVE", "ALEF_MAKSURA", "YEH", "YEH_WITH_HAMZA_ABOVE",
     "WAW", "WAW_WITH_HAMZA_ABOVE", "TEH_MARBUTA", "HEH", "BEH", "TEH", "LAM",
     "FEH", "REH", "SEEN", "SHEEN", "KAF", "QAF", "DAL", "MEEM", "HAH",
     "KHAH", "JEEM", "AIN", "SAD", "NOON"}

\* str.isalpha(): categories L*; the tatweel U+0640 is Lm, the diacritics
\* (Mn) are not letters
LatinLetters ==
    { LatinLower[i] : i \in 1..Len(LatinLower) } \cup { LatinUpper[i] : i \in 1..Len(LatinUpper) }

IsAlpha(c) ==
    \/ c \in LatinLetters
    \/ c \in ArabicLetters
    \/ c = "TATWEEL"

\* str.isdigit() and \d
IsDigit(c) ==
    c \in {"0", "1", "2", "3", "4", "5", "6", "7", "8", "9", "ARABIC_INDIC_DIGIT_TWO"}

\* str.lower() of one character (what re.I compares)
UpperLetters == { LatinUpper[i] : i \in 1..Len(LatinUpper) }

Lower(c) ==
    IF c \in UpperLetters
    THEN LatinLower[CHOOSE i \in 1..Len(LatinUpper) : c = LatinUpper[i]]
    ELSE c

LowerText(s) == [i \in 1..Len(s) |-> Lower(s[i])]

\* the first index >= i of s whose character is (is not) a space, else Len(s)+1
NextSpace(s, i) ==
    CHOOSE j \in i..(Len(s) + 1) :
        /\ j = Len(s) + 1 \/ IsSpace(s[j])
        /\ \A k \in i..(j - 1) : ~IsSpace(s[k])

NextNonSpace(s, i) ==
    CHOOSE j \in i..(Len(s) + 1) :
        /\ j = Len(s) + 1 \/ ~IsSpace(s[j])
        /\ \A k \in i..(j - 1) : IsSpace(s[k])

\* the last index <= i of s whose character is not a space, else 0
LastNonSpace(s, i) ==
    CHOOSE j \in 0..i :
        /\ j = 0 \/ ~IsSpace(s[j])
        /\ \A k \in (j + 1)..i : IsSpace(s[k])

\* str.split(): the maximal runs of non-space characters
RECURSIVE SplitFrom(_, _)
SplitFrom(s, i) ==
    LET b == NextNonSpace(s, i)
    IN  IF b > Len(s) THEN <<>>
        ELSE LET e == NextSpace(s, b)
             IN  <<SubSeq(s, b, e - 1)>> \o SplitFrom(s, e)

Split(s) == SplitFrom(s, 1)

\* " ".join(words)
RECURSIVE Join(_)
Join(words) ==
    IF words = <<>> THEN <<>>
    ELSE IF Len(words) = 1 THEN words[1]
    ELSE words[1] \o <<" ">> \o Join(Tail(words))

\* str.strip()
Strip(s) == SubSeq(s, NextNonSpace(s, 1), LastNonSpace(s, Len(s)))

StartsWith(s, prefix) ==
    Len(s) >= Len(prefix) /\ SubSeq(s, 1, Len(prefix)) = prefix

\* str(n) for an integer n
Digits == <<"0", "1", "2", "3", "4", "5", "6", "7", "8", "9">>

RECURSIVE StrNat(_)
StrNat(n) == IF n < 10 THEN <<Digits[n + 1]>> ELSE StrNat(n \div 10) \o <<Digits[(n % 10) + 1]>>

Str(n) == IF n < 0 THEN <<"-">> \o StrNat(0 - n) ELSE StrNat(n)

\* "".join(parts)
RECURSIVE Concat(_)
Concat(parts) ==
    IF parts = <<>> THEN <<>> ELSE parts[1] \o Concat(Tail(parts))

\* re.search of a literal: kw occurs in s at index i
MatchAt(s, i, kw) ==
    /\ i >= 1
    /\ i + Len(kw) - 1 <= Len(s)
    /\ SubSeq(s, i, i + Len(kw) - 1) = kw

Search(s, kws) == \E kw \in kws : \E i \in 1..Len(s) : MatchAt(s, i, kw)

\* s[i..j] is all whitespace (\s*)
AllSpace(s, i, j) == \A k \in i..j : IsSpace(s[k])

-----------------------------------------------------------------------------
(* Unicode normalization and Arabic normalization *)

\* canonical combining class of the combining marks of the alphabet
Ccc(c) ==
    IF c = "FATHA" THEN 30
    ELSE IF c \in {"HAMZA_ABOVE", "MADDAH_ABOVE", "COMBINING_ACUTE_ACCENT", "CURLY_FATHA"}
         THEN 230
    ELSE IF c \in {"HAMZA_BELOW", "CURLY_KASRA"} THEN 220
    ELSE IF c = "SUPERSCRIPT_ALEF" THEN 35
    ELSE 0

AcuteLetters ==
    { SmallAcute[i] : i \in 1..Len(SmallAcute) } \cup { CapitalAcute[i] : i \in 1..Len(CapitalAcute) }

\* full decomposition: U+00A0 becomes a space, a precomposed letter becomes
\* its base letter and its mark
Compat(c) ==
    IF c = "NO_BREAK_SPACE" THEN <<" ">>
    ELSE IF c = "ALEF_WITH_HAMZA_ABOVE" THEN <<"ALEF", "HAMZA_ABOVE">>
    ELSE IF c = "ALEF_WITH_HAMZA_BELOW" THEN <<"ALEF", "HAMZA_BELOW">>
    ELSE IF c = "ALEF_WITH_MADDA_ABOVE" THEN <<"ALEF", "MADDAH_ABOVE">>
    ELSE IF c = "WAW_WITH_HAMZA_ABOVE" THEN <<"WAW", "HAMZA_ABOVE">>
    ELSE IF c = "YEH_WITH_HAMZA_ABOVE" THEN <<"YEH", "HAMZA_ABOVE">>
    ELSE IF c \notin AcuteLetters THEN <<c>>
    ELSE IF \E i \in 1..Len(AcuteBases) : c = SmallAcute[i]
         THEN <<AcuteBases[CHOOSE i \in 1..Len(AcuteBases) : c = SmallAcute[i]],
                "COMBINING_ACUTE_ACCENT">>
    ELSE IF \E i \in 1..Len(AcuteBases) : c = CapitalAcute[i]
         THEN <<CapitalAcuteBases[CHOOSE i \in 1..Len(AcuteBases) : c = CapitalAcute[i]],
                "COMBINING_ACUTE_ACCENT">>
    ELSE <<c>>

\* canonical composition of a starter and a mark; <<>> when there is none
Compose(b, m) ==
    IF b = "ALEF" /\ m = "HAMZA_ABOVE" THEN <<"ALEF_WITH_HAMZA_ABOVE">>
    ELSE IF b = "ALEF" /\ m = "HAMZA_BELOW" THEN <<"ALEF_WITH_HAMZA_BELOW">>
    ELSE IF b = "ALEF" /\ m = "MADDAH_ABOVE" THEN <<"ALEF_WITH_MADDA_ABOVE">>
    ELSE IF b = "WAW" /\ m = "HAMZA_ABOVE" THEN <<"WAW_WITH_HAMZA_ABOVE">>
    ELSE IF b = "YEH" /\ m = "HAMZA_ABOVE" THEN <<"YEH_WITH_HAMZA_ABOVE">>
    ELSE IF m # "COMBINING_ACUTE_ACCENT" THEN <<>>
    ELSE IF \E i \in 1..Len(AcuteBases) : b = AcuteBases[i]
         THEN <<SmallAcute[CHOOSE i \in 1..Len(AcuteBases) : b = AcuteBases[i]]>>
    ELSE IF \E i \in 1..Len(AcuteBases) : b = CapitalAcuteBases[i]
         THEN <<CapitalAcute[CHOOSE i \in 1..Len(AcuteBases) : b = CapitalAcuteBases[i]]>>
    ELSE <<>>

\* canonical ordering: marks of one run sorted by combining class (stable)
RECURSIVE Reorder(_)
Reorder(s) ==
    IF \E i \in 1..(Len(s) - 1) : Ccc(s[i]) > Ccc(s[i + 1]) /\ Ccc(s[i + 1]) > 0
    THEN LET i == CHOOSE i \in 1..(Len(s) - 1) :
                      Ccc(s[i]) > Ccc(s[i + 1]) /\ Ccc(s[i + 1]) > 0
         IN  Reorder([s EXCEPT ![i] = s[i + 1], ![i + 1] = s[i]])
    ELSE s

\* canonical composition: a mark composes with the last starter unless a
\* character between them blocks it (a starter, or a mark of a class >= its own)
RECURSIVE ComposeFrom(_, _, _)
ComposeFrom(s, st, i) ==
    IF i > Len(s) THEN s
    ELSE IF Ccc(s[i]) = 0 THEN ComposeFrom(s, i, i + 1)
    ELSE IF /\ st >= 1
            /\ Compose(s[st], s[i]) # <<>>
            /\ \A k \in (st + 1)..(i - 1) : Ccc(s[k]) # 0 /\ Ccc(s[k]) < Ccc(s[i])
         THEN ComposeFrom(SubSeq(s, 1, st - 1) \o Compose(s[st], s[i])
                              \o SubSeq(s, st + 1, i - 1) \o SubSeq(s, i + 1, Len(s)),
                          st, i)
    ELSE ComposeFrom(s, st, i + 1)

\* unicodedata.normalize("NFKC", s)
NFKC(s) == ComposeFrom(Reorder(Concat([i \in 1..Len(s) |-> Compat(s[i])])), 0, 1)

\* DIACRITICS_PATTERN of chunk_ar.py: [U+0610-U+061A U+064B-U+065F U+0670 U+06D6-U+06ED]
DiacriticsAr == {"FATHA", "HAMZA_ABOVE", "HAMZA_BELOW", "MADDAH_ABOVE", "SUPERSCRIPT_ALEF"}

\* the chain of .replace calls and the two removals
FoldArabic(c) ==
    IF c \in {"ALEF_WITH_HAMZA_ABOVE", "ALEF_WITH_HAMZA_BELOW", "ALEF_WITH_MADDA_ABOVE"}
    THEN <<"ALEF">>
    ELSE IF c \in {"ALEF_MAKSURA", "YEH_WITH_HAMZA_ABOVE"} THEN <<"YEH">>
    ELSE IF c = "WAW_WITH_HAMZA_ABOVE" THEN <<"WAW">>
    ELSE IF c = "TEH_MARBUTA" THEN <<"HEH">>
    ELSE IF c = "TATWEEL" THEN <<>>
    ELSE IF c \in DiacriticsAr THEN <<>>
    ELSE <<c>>

normalize_arabic(s) ==
    IF s = <<>> THEN s
    ELSE LET t == NFKC(s) IN Concat([i \in 1..Len(t) |-> FoldArabic(t[i])])

\* hashlib.sha1(...).hexdigest(), taken as collision-free: a digest is
\* identified by the text it was computed from
sha1(s) == [sha1 |-> s]

(* The first 8 hex characters of a digest are 32 of its 160 bits, and texts *)
(* with different digests share them (sha1("chunk 17623") = 4becdd54b749..., *)
(* sha1("chunk 76592") = 4becdd54c964...), so they are computed: what       *)
(* follows is SHA-1 on the UTF-8 bytes of a text.                           *)

\* the characters U+0020 to U+007E in the order of their code points
PrintableAscii ==
    <<" ", "!", "QUOTATION_MARK", "#", "$", "%", "&", "'", "(", ")", "*",
      "+", ",", "-", ".", "/", "0", "1", "2", "3", "4", "5", "6", "7", "8",
      "9", ":", ";", "<", "=", ">", "?", "@", "A", "B", "C", "D", "E", "F",
      "G", "H", "I", "J", "K", "L", "M", "N", "O", "P", "Q", "R", "S", "T",
      "U", "V", "W", "X", "Y", "Z", "[", "REVERSE_SOLIDUS", "]", "^", "_",
      "GRAVE_ACCENT", "a", "b", "c", "d", "e", "f", "g", "h", "i", "j", "k",
      "l", "m", "n", "o", "p", "q", "r", "s", "t", "u", "v", "w", "x", "y",
      "z", "{", "|", "}", "~">>

\* ord(c) of the characters written by name
NamedCodePoints ==
    { <<"NO_BREAK_SPACE", 160>>,
      <<"CAPITAL_LETTER_A_WITH_GRAVE", 192>>,
      <<"CAPITAL_LETTER_A_WITH_ACUTE", 193>>,
      <<"CAPITAL_LETTER_E_WITH_GRAVE", 200>>,
      <<"CAPITAL_LETTER_E_WITH_ACUTE", 201>>,
      <<"CAPITAL_LETTER_I_WITH_ACUTE", 205>>,
      <<"CAPITAL_LETTER_O_WITH_ACUTE", 211>>,
      <<"CAPITAL_LETTER_U_WITH_ACUTE", 218>>,
      <<"CAPITAL_LETTER_Y_WITH_ACUTE", 221>>,
      <<"SMALL_LETTER_A_WITH_GRAVE", 224>>,
      <<"SMALL_LETTER_A_WITH_ACUTE", 225>>,
      <<"SMALL_LETTER_E_WITH_GRAVE", 232>>,
      <<"SMALL_LETTER_E_WITH_ACUTE", 233>>,
      <<"SMALL_LETTER_I_WITH_ACUTE", 237>>,
      <<"SMALL_LETTER_O_WITH_ACUTE", 243>>,
      <<"SMALL_LETTER_U_WITH_ACUTE", 250>>,
      <<"SMALL_LETTER_Y_WITH_ACUTE", 253>>,
      <<"CAPITAL_LETTER_C_WITH_ACUTE", 262>>,
      <<"SMALL_LETTER_C_WITH_ACUTE", 263>>,
      <<"CAPITAL_LETTER_L_WITH_ACUTE", 313>>,
      <<"SMALL_LETTER_L_WITH_ACUTE", 314>>,
      <<"CAPITAL_LETTER_N_WITH_ACUTE", 323>>,
      <<"SMALL_LETTER_N_WITH_ACUTE", 324>>,
      <<"CAPITAL_LETTER_R_WITH_ACUTE", 340>>,
      <<"SMALL_LETTER_R_WITH_ACUTE", 341>>,
      <<"CAPITAL_LETTER_S_WITH_ACUTE", 346>>,
      <<"SMALL_LETTER_S_WITH_ACUTE", 347>>,
      <<"CAPITAL_LETTER_Z_WITH_ACUTE", 377>>,
      <<"SMALL_LETTER_Z_WITH_ACUTE", 378>>,
      <<"CAPITAL_LETTER_G_WITH_ACUTE", 500>>,
      <<"SMALL_LETTER_G_WITH_ACUTE", 501>>,
      <<"COMBINING_ACUTE_ACCENT", 769>>,
      <<"ALEF_WITH_MADDA_ABOVE", 1570>>,
      <<"ALEF_WITH_HAMZA_ABOVE", 1571>>,
      <<"WAW_WITH_HAMZA_ABOVE", 1572>>,
      <<"ALEF_WITH_HAMZA_BELOW", 1573>>,
      <<"YEH_WITH_HAMZA_ABOVE", 1574>>,
      <<"ALEF", 1575>>,
      <<"BEH", 1576>>,
      <<"TEH_MARBUTA", 1577>>,
      <<"TEH", 1578>>,
      <<"JEEM", 1580>>,
      <<"HAH", 1581>>,
      <<"KHAH", 1582>>,
      <<"DAL", 1583>>,
      <<"REH", 1585>>,
      <<"SEEN", 1587>>,
      <<"SHEEN", 1588>>,
      <<"SAD", 1589>>,
      <<"AIN", 1593>>,
      <<"TATWEEL", 1600>>,
      <<"FEH", 1601>>,
      <<"QAF", 1602>>,
      <<"KAF", 1603>>,
      <<"LAM", 1604>>,
      <<"MEEM", 1605>>,
      <<"NOON", 1606>>,
      <<"HEH", 1607>>,
      <<"WAW", 1608>>,
      <<"ALEF_MAKSURA", 1609>>,
      <<"YEH", 1610>>,
      <<"FATHA", 1614>>,
      <<"MADDAH_ABOVE", 1619>>,
      <<"HAMZA_ABOVE", 1620>>,
      <<"HAMZA_BELOW", 1621>>,
      <<"ARABIC_INDIC_DIGIT_TWO", 1634>>,
      <<"SUPERSCRIPT_ALEF", 1648>>,
      <<"CURLY_FATHA", 2276>>,
      <<"CURLY_KASRA", 2278>>,
      <<"CAPITAL_LETTER_K_WITH_ACUTE", 7728>>,
      <<"SMALL_LETTER_K_WITH_ACUTE", 7729>>,
      <<"CAPITAL_LETTER_M_WITH_ACUTE", 7742>>,
      <<"SMALL_LETTER_M_WITH_ACUTE", 7743>>,
      <<"CAPITAL_LETTER_P_WITH_ACUTE", 7764>>,
      <<"SMALL_LETTER_P_WITH_ACUTE", 7765>>,
      <<"CAPITAL_LETTER_W_WITH_ACUTE", 7810>>,
      <<"SMALL_LETTER_W_WITH_ACUTE", 7811>> }

\* ord(c): the code point of a character
CodePoint ==
    [p \in { <<PrintableAscii[k], k + 31>> : k \in 1..Len(PrintableAscii) }
           \cup NamedCodePoints |-> p[2]]

ord ==
    [c \in { p[1] : p \in DOMAIN CodePoint } |->
        CodePoint[CHOOSE p \in DOMAIN CodePoint : p[1] = c]] @@ <<>>

\* c.encode("utf-8"): the bytes of one character below U+10000
Utf8OfChar(c) ==
    LET cp == ord[c]
    IN  IF cp < 128 THEN <<cp>>
        ELSE IF cp < 2048 THEN <<192 + (cp \div 64), 128 + (cp % 64)>>
        ELSE <<224 + (cp \div 4096), 128 + ((cp \div 64) % 64), 128 + (cp % 64)>>

\* s.encode("utf-8", errors="ignore"), the text taken by halves
RECURSIVE Utf8(_)
Utf8(s) ==
    IF Len(s) = 0 THEN <<>>
    ELSE IF Len(s) = 1 THEN Utf8OfChar(s[1])
    ELSE LET half == Len(s) \div 2
         IN  Utf8(SubSeq(s, 1, half)) \o Utf8(SubSeq(s, half + 1, Len(s)))

\* the bitwise and of two numbers of n bits
RECURSIVE BitAnd(_, _, _)
BitAnd(a, b, n) ==
    IF n = 0 THEN 0 ELSE ((a % 2) * (b % 2)) + (2 * BitAnd(a \div 2, b \div 2, n - 1))

\* x & y for two numbers of 4 bits, at the place 16 * x + y + 1
NibbleAnd == [k \in 1..256 |-> BitAnd((k - 1) \div 16, (k - 1) % 16, 4)] \o <<>>

\* x & y for two bytes, at the place 256 * x + y + 1
ByteAnd ==
    [k \in 1..65536 |->
        LET a == (k - 1) \div 256
            b == (k - 1) % 256
        IN  (16 * NibbleAnd[(16 * (a \div 16)) + (b \div 16) + 1])
            + NibbleAnd[(16 * (a % 16)) + (b % 16) + 1]] \o <<>>

\* A word of 32 bits is the pair of its upper and its lower 16 bits.
And16(a, b) ==
    (256 * ByteAnd[(256 * (a \div 256)) + (b \div 256) + 1])
    + ByteAnd[(256 * (a % 256)) + (b % 256) + 1]

WordAnd(x, y) == <<And16(x[1], y[1]), And16(x[2], y[2])>>

WordXor(x, y) ==
    <<(x[1] + y[1]) - (2 * And16(x[1], y[1])), (x[2] + y[2]) - (2 * And16(x[2], y[2]))>>

WordNot(x) == <<65535 - x[1], 65535 - x[2]>>

\* the sum modulo 2^32
WordAdd(x, y) ==
    LET lo == x[2] + y[2]
    IN  <<(x[1] + y[1] + (lo \div 65536)) % 65536, lo % 65536>>

\* the rotation to the left by n bits, 0 < n < 16
RotateLeft(x, n) ==
    LET up == 2 ^ n
        down == 2 ^ (16 - n)
    IN  <<((x[1] * up) % 65536) + (x[2] \div down), ((x[2] * up) % 65536) + (x[1] \div down)>>

\* the rotation to the left by 30 bits
RotateLeft30(x) == RotateLeft(<<x[2], x[1]>>, 14)

\* f(t; B, C, D) of the round t
RoundFunction(t, b, c, d) ==
    IF t < 20 THEN WordAdd(WordAnd(b, c), WordAnd(WordNot(b), d))
    ELSE IF t >= 40 /\ t < 60 THEN WordAdd(WordAnd(b, c), WordAnd(WordXor(b, c), d))
    ELSE WordXor(WordXor(b, c), d)

\* K(t): 5A827999, 6ED9EBA1, 8F1BBCDC, CA62C1D6
RoundConstant(t) ==
    IF t < 20 THEN <<23170, 31129>>
    ELSE IF t < 40 THEN <<28377, 60321>>
    ELSE IF t < 60 THEN <<36635, 48348>>
    ELSE <<51810, 49622>>

\* the message schedule W(0..79) of a block of 16 words
RECURSIVE Schedule(_)
Schedule(w) ==
    IF Len(w) = 80 THEN w
    ELSE LET n == Len(w)
             x == WordXor(WordXor(w[n - 2], w[n - 7]), WordXor(w[n - 13], w[n - 15]))
         IN  Schedule(Append(w, RotateLeft(x, 1)))

\* the rounds t..79 on the state <<A, B, C, D, E>> of the five words
RECURSIVE Rounds(_, _, _)
Rounds(w, t, s) ==
    IF t < 80 /\ Len(s) = 5
    THEN LET temp == WordAdd(WordAdd(RotateLeft(RotateLeft(s[1], 1), 4),
                                     RoundFunction(t, s[2], s[3], s[4])),
                             WordAdd(WordAdd(s[5], RoundConstant(t)), w[t + 1]))
         IN  Rounds(w, t + 1, <<temp, s[1], RotateLeft30(s[2]), s[3], s[4]>>)
    ELSE s

\* the digest state after a block
Compress(h, block) ==
    LET s == Rounds(Schedule(block), 0, h)
    IN  [k \in 1..5 |-> WordAdd(h[k], s[k])]

\* the message with the bit 1, the zero bytes and the length in bits
Padded(bytes) ==
    LET n == Len(bytes)
        zeros == (119 - (n % 64)) % 64
        bits == 8 * n
    IN  bytes \o <<128>> \o [k \in 1..zeros |-> 0]
        \o <<0, 0, 0, 0, bits \div 16777216, (bits \div 65536) % 256,
             (bits \div 256) % 256, bits % 256>>

\* the 16 words of the k-th block
BlockOf(p, k) ==
    [j \in 1..16 |->
        LET at == (64 * (k - 1)) + (4 * (j - 1))
        IN  <<(256 * p[at + 1]) + p[at + 2], (256 * p[at + 3]) + p[at + 4]>>] \o <<>>

RECURSIVE Blocks(_, _, _)
Blocks(p, k, h) ==
    IF 64 * (k - 1) >= Len(p) THEN h
    ELSE Blocks(p, k + 1, Compress(h, BlockOf(p, k)) \o <<>>)

\* H0..H4: 67452301 EFCDAB89 98BADCFE 10325476 C3D2E1F0
InitialDigest ==
    <<<<26437, 8961>>, <<61389, 43913>>, <<39098, 56574>>, <<4146, 21622>>,
      <<50130, 57840>>>>

HexDigits ==
    <<"0", "1", "2", "3", "4", "5", "6", "7", "8", "9", "a", "b", "c", "d", "e", "f">>

Hex16(n) ==
    <<HexDigits[(n \div 4096) + 1], HexDigits[((n \div 256) % 16) + 1],
      HexDigits[((n \div 16) % 16) + 1], HexDigits[(n % 16) + 1]>>

\* hashlib.sha1(bytes).hexdigest()
hexdigest(bytes) ==
    LET h == Blocks(Padded(bytes), 1, InitialDigest)
    IN  Hex16(h[1][1]) \o Hex16(h[1][2]) \o Hex16(h[2][1]) \o Hex16(h[2][2])
        \o Hex16(h[3][1]) \o Hex16(h[3][2]) \o Hex16(h[4][1]) \o Hex16(h[4][2])
        \o Hex16(h[5][1]) \o Hex16(h[5][2])

-----------------------------------------------------------------------------
(* Hygiene rules: chunk_ar.py:27-87, chunk_fr.py:30-70, hygiene.py:6-18 *)

\* hygiene.py TITLE_PATTERNS["en"] (re.I): the alternatives of the pattern
TitleKeywordsEn ==
    { <<"c", "o", "v", "e", "r">>,
      <<"a", "b", "o", "u", "t", " ", "t", "h", "i", "s", " ", "t", "e", "x", "t">>,
      <<"a", "c", "k", "n", "o", "w", "l", "e", "d", "g">>,
      <<"t", "a", "b", "l", "e", " ", "o", "f", " ", "c", "o", "n", "t", "e", "n", "t", "s">>,
      <<"i", "n", "d", "e", "x">>,
      <<"b", "i", "b", "l", "i", "o", "g", "r", "a", "p", "h">>,
      <<"c", "o", "p", "y", "r", "i", "g", "h", "t">>,
      <<"l", "i", "c", "e", "n", "s", "e">> }

\* hygiene.py TITLE_PATTERNS["fr"] (re.I); licen[cs]e is two alternatives
TitleKeywordsFr ==
    { <<"c", "o", "u", "v", "e", "r", "t", "u", "r", "e">>,
      <<"SMALL_LETTER_A_WITH_GRAVE", " ", "p", "r", "o", "p", "o", "s">>,
      <<"r", "e", "m", "e", "r", "c", "i", "e", "m", "e", "n", "t", "s">>,
      <<"s", "o", "m", "m", "a", "i", "r", "e">>,
      <<"t", "a", "b", "l", "e", " ", "d", "e", "s", " ", "m", "a", "t", "i", "SMALL_LETTER_E_WITH_GRAVE", "r", "e", "s">>,
      <<"b", "i", "b", "l", "i", "o", "g", "r", "a", "p", "h">>,
      <<"d", "r", "o", "i", "t", "s">>,
      <<"l", "i", "c", "e", "n", "c", "e">>,
      <<"l", "i", "c", "e", "n", "s", "e">> }

\* chunk_fr.py FR_TITLE_BOILERPLATE (re.I): also "a propos"
FrTitleKeywords ==
    { <<"c", "o", "u", "v", "e", "r", "t", "u", "r", "e">>,
      <<"SMALL_LETTER_A_WITH_GRAVE", " ", "p", "r", "o", "p", "o", "s">>,
      <<"a", " ", "p", "r", "o", "p", "o", "s">>,
      <<"r", "e", "m", "e", "r", "c", "i", "e", "m", "e", "n", "t", "s">>,
      <<"s", "o", "m", "m", "a", "i", "r", "e">>,
      <<"t", "a", "b", "l", "e", " ", "d", "e", "s", " ", "m", "a", "t", "i", "SMALL_LETTER_E_WITH_GRAVE", "r", "e", "s">>,
      <<"b", "i", "b", "l", "i", "o", "g", "r", "a", "p", "h">>,
      <<"d", "r", "o", "i", "t", "s">>,
      <<"l", "i", "c", "e", "n", "c", "e">>,
      <<"l", "i", "c", "e", "n", "s", "e">> }

\* the Arabic alternatives without the optional tail of the second one
ArTitleKeywords ==
    { <<"ALEF", "LAM", "FEH", "HEH", "REH", "SEEN">>,
      <<"SHEEN", "KAF", "REH">>,
      <<"ALEF", "LAM", "MEEM", "HAH", "TEH", "WAW", "YEH", "ALEF", "TEH">>,
      <<"ALEF", "LAM", "KHAH", "ALEF", "TEH", "MEEM", "TEH_MARBUTA">>,
      <<"ALEF", "LAM", "MEEM", "REH", "ALEF", "JEEM", "AIN">>,
      <<"HAH", "QAF", "WAW", "QAF">>,
      <<"TEH", "REH", "KHAH", "YEH", "SAD">> }

\* the optional tail of the second alternative: (?:\s*WAW TEH QAF DAL YEH REH)?
ArShukr == <<"SHEEN", "KAF", "REH">>

ArWaTaqdir == <<"WAW", "TEH", "QAF", "DAL", "YEH", "REH">>

\* the indices at which a match of one alternative that starts at i can end
ArTitleMatchEnds(s, i) ==
    { i + Len(kw) - 1 : kw \in { k \in ArTitleKeywords : MatchAt(s, i, k) } }
    \cup { e \in 1..Len(s) :
             /\ MatchAt(s, i, ArShukr)
             /\ \E j \in (i + Len(ArShukr))..Len(s) :
                   /\ AllSpace(s, i + Len(ArShukr), j - 1)
                   /\ MatchAt(s, j, ArWaTaqdir)
                   /\ e = j + Len(ArWaTaqdir) - 1 }

\* [\s:]
IsTitleBoundary(c) == IsSpace(c) \/ c = ":"

\* chunk_ar.py AR_TITLE_BOILERPLATE.search: (?:^|[\s:])(...)(?:$|[\s:])
AR_TITLE_BOILERPLATE(s) ==
    \E i \in 1..Len(s) : \E e \in ArTitleMatchEnds(s, i) :
        /\ i = 1 \/ IsTitleBoundary(s[i - 1])
        /\ e = Len(s) \/ IsTitleBoundary(s[e + 1])

\* hygiene.py TITLE_PATTERNS.get(lang).search; None for another language
TITLE_PATTERNS(lang, s) ==
    IF lang = "en" THEN Search(LowerText(s), TitleKeywordsEn)
    ELSE IF lang = "fr" THEN Search(LowerText(s), TitleKeywordsFr)
    ELSE IF lang = "ar" THEN \E i \in 1..Len(s) : ArTitleMatchEnds(s, i) # {}
    ELSE FALSE

FR_TITLE_BOILERPLATE(s) == Search(LowerText(s), FrTitleKeywords)

ArTerminator == <<"TEH", "REH", "MEEM", "YEH", "NOON", "ALEF", "TEH", "WAW", "REH">>

ArTehYeh == <<"TEH", "YEH">>

\* AR_MOVIE_TERMS.search (re.I): the five alternatives
AR_MOVIE_TERMS(s) ==
    LET low == LowerText(s)
    IN
    \E i \in 1..Len(s) :
        \/ MatchAt(s, i, ArTerminator)
        \/ /\ MatchAt(s, i, ArTehYeh)
           /\ \E j \in (i + 2)..Len(s) :
                 AllSpace(s, i + 2, j - 1) /\ s[j] = "ARABIC_INDIC_DIGIT_TWO"
        \/ MatchAt(s, i, ArTehYeh \o <<"2">>)
        \/ MatchAt(low, i, <<"t", "2">>)
        \/ /\ MatchAt(s, i, ArTerminator)
           /\ \E j \in (i + Len(ArTerminator))..Len(s) :
                 AllSpace(s, i + Len(ArTerminator), j - 1) /\ s[j] = "2"

\* A ratio is a Python float.  The quotient n / d of two integers is the
\* double nearest to the fraction and is kept as <<n, d>>; the difference
\* 1.0 - l / d is kept as <<d - l, d, "1.0-">>.  A threshold is a float given
\* with two decimals, in hundredths (0.60 is 60): the double nearest to it.

\* The hundredths h for which the double 1.0 - (100 - h) / 100 is greater
\* than the double of h / 100 (0.30000000000000004 > 0.3); for the other
\* hundredths it is equal or less.
OneMinusRoundsAbove ==
    {1, 2, 3, 4, 5, 6, 15, 16, 17, 18, 29, 30, 31, 41, 42, 43, 57, 58, 59, 82}

\* ratio > threshold: two doubles nearest to different fractions compare as
\* the fractions do, a quotient equal to the threshold as a fraction is the
\* same double, and a difference 1.0 - q equal to it is the double above it
\* for the hundredths of OneMinusRoundsAbove
RatioGt(r, hundredths) ==
    \/ r[1] * 100 > hundredths * r[2]
    \/ /\ Len(r) = 3
       /\ r[1] * 100 = hundredths * r[2]
       /\ hundredths \in OneMinusRoundsAbove

CountAlpha(txt) == Cardinality({ i \in 1..Len(txt) : IsAlpha(txt[i]) })

CountDigits(txt) == Cardinality({ i \in 1..Len(txt) : IsDigit(txt[i]) })

\* (letters_ratio, digits_ratio, non_letters_ratio)
char_ratios(txt) ==
    IF txt = <<>> THEN << <<0, 1>>, <<0, 1>>, <<1, 1>> >>
    ELSE LET total   == Len(txt)
             letters == CountAlpha(txt)
             digits  == CountDigits(txt)
         IN  << <<letters, total>>, <<digits, total>>, <<total - letters, total, "1.0-">> >>

too_short(content, min_chars, min_words) ==
    IF content = <<>> THEN TRUE
    ELSE IF Len(content) < min_chars THEN TRUE
    ELSE IF Len(Split(content)) < min_words THEN TRUE
    ELSE FALSE

ar_is_boilerplate_title(title) ==
    title # <<>> /\ AR_TITLE_BOILERPLATE(title)

fr_is_boilerplate_title(title) ==
    title # <<>> /\ FR_TITLE_BOILERPLATE(title)

looks_like_ar_movie_subs(content, movie_digits_ratio_drop) ==
    IF content = <<>> THEN FALSE
    ELSE AR_MOVIE_TERMS(content)
           /\ RatioGt(char_ratios(content)[2], movie_digits_ratio_drop)

\* hygiene.py line 7
MIN_WORDS == 6

\* MIN_CHARS.get(lang, 50)
MIN_CHARS(lang) == IF lang = "ar" THEN 60 ELSE 50

\* the rules of chunk_ar.py with the title rule tried first
ar_should_drop_chunk_TitleFirst(title, content, min_chars, min_words, digits_punct_drop, movie_digits_ratio_drop) ==
    IF ar_is_boilerplate_title(title) THEN <<TRUE, "boilerplate_title">>
    ELSE IF too_short(content, min_chars, min_words) THEN <<TRUE, "too_short">>
    ELSE IF RatioGt(char_ratios(content)[3], digits_punct_drop)
         THEN <<TRUE, "digits_punct_heavy">>
    ELSE IF looks_like_ar_movie_subs(content, movie_digits_ratio_drop)
         THEN <<TRUE, "ar_movie_subs">>
    ELSE <<FALSE, "">>

\* chunk_ar.py should_drop_chunk
ar_should_drop_chunk(title, content, min_chars, min_words, digits_punct_drop, movie_digits_ratio_drop) ==
    IF too_short(content, min_chars, min_words) THEN <<TRUE, "too_short">>
    ELSE IF ar_is_boilerplate_title(title) THEN <<TRUE, "boilerplate_title">>
    ELSE IF RatioGt(char_ratios(content)[3], digits_punct_drop)
         THEN <<TRUE, "digits_punct_heavy">>
    ELSE IF looks_like_ar_movie_subs(content, movie_digits_ratio_drop)
         THEN <<TRUE, "ar_movie_subs">>
    ELSE <<FALSE, "">>

\* the rules of chunk_fr.py with the ratio rule tried before the title rule
fr_should_drop_chunk_RatioFirst(title, content, min_chars, min_words, digits_punct_drop) ==
    IF too_short(content, min_chars, min_words) THEN <<TRUE, "too_short">>
    ELSE IF RatioGt(char_ratios(content)[3], digits_punct_drop)
         THEN <<TRUE, "digits_punct_heavy">>
    ELSE IF fr_is_boilerplate_title(title) THEN <<TRUE, "boilerplate_title">>
    ELSE <<FALSE, "">>

\* chunk_fr.py should_drop_chunk
fr_should_drop_chunk(title, content, min_chars, min_words, digits_punct_drop) ==
    IF too_short(content, min_chars, min_words) THEN <<TRUE, "too_short">>
    ELSE IF fr_is_boilerplate_title(title) THEN <<TRUE, "boilerplate_title">>
    ELSE IF RatioGt(char_ratios(content)[3], digits_punct_drop)
         THEN <<TRUE, "digits_punct_heavy">>
    ELSE <<FALSE, "">>

\* a statement that raises yields no value: the exception alone
Raised(exception) == <<exception>>

\* hygiene.py line 18: re.compile(r"\p{L}", re.UNICODE) raises re.error (bad
\* escape \p) under the re module the file imports.  The statement is at
\* module level, so loading the file ends there: none of the def statements
\* below it is executed, and no function of hygiene.py can be called.
LETTER_RE == Raised("re.error")

-----------------------------------------------------------------------------
(* chunk_text as a function *)

RECURSIVE chunk_loop(_, _, _, _, _)
chunk_loop(words, chunk_size, step, start, acc) ==
    IF ~(start < Len(words)) THEN acc
    ELSE LET end  == Min(start + chunk_size, Len(words))
             next == Append(acc, PySlice(words, start, end))
         IN  IF end = Len(words) THEN next
             ELSE chunk_loop(words, chunk_size, step, start + step, next)

\* a step that ignores the overlap
chunk_step_NoOverlap(chunk_size, overlap) == Max(1, chunk_size)

chunk_step(chunk_size, overlap) == Max(1, chunk_size - overlap)

\* the slices words[start:end] the loop takes, in order
chunk_windows(words, chunk_size, overlap) ==
    chunk_loop(words, chunk_size, chunk_step(chunk_size, overlap), 0, <<>>)

\* chunk_text: split the text, take the slices, join each with single spaces
chunk_text(text, chunk_size, overlap) ==
    LET w == chunk_windows(Split(text), chunk_size, overlap)
    IN  [k \in 1..Len(w) |-> Join(w[k])]

-----------------------------------------------------------------------------
(* chunk_text as a state machine, one action per loop iteration *)

MaxTokens == 6
MaxChunkSize == 3
MaxNegative == 2

\* argparse defaults of --chunk_size and --overlap
DefaultChunkSize == 350
DefaultOverlap == 60

\* The tokens of the input are numbered from 0: token i is the number i.
Tokens(n) == [i \in 1..n |-> i - 1]

\* A 1000-word document chunked with the default parameters.
Scenario == <<1000, DefaultChunkSize, DefaultOverlap>>

\* The parameters are any integers the command line accepts (type=int),
\* negative ones included.
ChunkParams == (0 - MaxNegative)..MaxChunkSize

ChunkInputs ==
    { <<n, cs, ov>> : n \in 0..MaxTokens, cs \in ChunkParams, ov \in ChunkParams }
    \cup { Scenario }

ChunkInit ==
    /\ \E inp \in ChunkInputs :
          /\ ct_words = Tokens(inp[1])
          /\ ct_chunk_size = inp[2]
          /\ ct_overlap = inp[3]
    /\ ct_start = 0
    /\ ct_step = 0
    /\ ct_chunks = <<>>
    /\ ct_pc = "entry"
    /\ HygieneIdle
    /\ MainIdle
    /\ NormalizeIdle
    /\ SectionsIdle
    /\ CleanIdle
    /\ UpsertIdle
    /\ MergeIdle
    /\ BuildIdle
    /\ UploadIdle
    /\ MirrorIdle
    /\ PagesIdle

\* chunks, start = [], 0; step = max(1, chunk_size - overlap)
ChunkEnter ==
    /\ ct_pc = "entry"
    /\ ct_chunks' = <<>>
    /\ ct_start' = 0
    /\ ct_step' = chunk_step(ct_chunk_size, ct_overlap)
    /\ ct_pc' = "loop"
    /\ UNCHANGED <<ct_words, ct_chunk_size, ct_overlap>>
    /\ UNCHANGED ct_others

\* one iteration of the while loop that ends in the break
ChunkLast ==
    /\ ct_pc = "loop"
    /\ ct_start < Len(ct_words)
    /\ LET end == Min(ct_start + ct_chunk_size, Len(ct_words))
       IN  /\ end = Len(ct_words)
           /\ ct_chunks' = Append(ct_chunks, PySlice(ct_words, ct_start, end))
    /\ ct_pc' = "done"
    /\ UNCHANGED <<ct_words, ct_chunk_size, ct_overlap, ct_start, ct_step>>
    /\ UNCHANGED ct_others

\* one iteration of the while loop that goes on: start += step
ChunkAdvance ==
    /\ ct_pc = "loop"
    /\ ct_start < Len(ct_words)
    /\ LET end == Min(ct_start + ct_chunk_size, Len(ct_words))
       IN  /\ end # Len(ct_words)
           /\ ct_chunks' = Append(ct_chunks, PySlice(ct_words, ct_start, end))
    /\ ct_start' = ct_start + ct_step
    /\ UNCHANGED <<ct_words, ct_chunk_size, ct_overlap, ct_step, ct_pc>>
    /\ UNCHANGED ct_others

\* the loop condition fails: return chunks
ChunkExit ==
    /\ ct_pc = "loop"
    /\ ~(ct_start < Len(ct_words))
    /\ ct_pc' = "done"
    /\ UNCHANGED <<ct_words, ct_chunk_size, ct_overlap, ct_start, ct_step, ct_chunks>>
    /\ UNCHANGED ct_others

ChunkNext == ChunkEnter \/ ChunkLast \/ ChunkAdvance \/ ChunkExit

SpecChunk == ChunkInit /\ [][ChunkNext]_vars

\* The loop is sequential code: an enabled step is taken.
SpecChunkFair == SpecChunk /\ WF_vars(ChunkNext)

-----------------------------------------------------------------------------
(* Properties of chunk_text *)

ct_n == Len(ct_words)

ct_done == ct_pc = "done"

\* the token indices of a chunk
TokensOf(chunk) == { chunk[j] : j \in 1..Len(chunk) }

\* the windows returned when the parameters are 0 <= overlap < chunk_size
ct_regular == 0 <= ct_overlap /\ ct_overlap < ct_chunk_size

CeilDiv(a, b) == 0 - ((0 - a) \div b)

\* C4: for chunk_size >= 1 and overlap < chunk_size (negative overlap
\* included) the returned windows contain every token index at least once,
\* none is empty, and an input with no tokens yields no windows.
C4_Coverage ==
    (ct_done /\ ct_chunk_size >= 1 /\ ct_overlap < ct_chunk_size) =>
        /\ \A i \in 0..(ct_n - 1) :
              \E k \in 1..Len(ct_chunks) : i \in TokensOf(ct_chunks[k])
        /\ \A k \in 1..Len(ct_chunks) : ct_chunks[k] # <<>>
        /\ (ct_n = 0 => ct_chunks = <<>>)

\* The same with overlap >= 0: what the loop does guarantee.
CoverageNonNegativeOverlap ==
    (ct_done /\ ct_regular) =>
        /\ \A i \in 0..(ct_n - 1) :
              \E k \in 1..Len(ct_chunks) : i \in TokensOf(ct_chunks[k])
        /\ \A k \in 1..Len(ct_chunks) : ct_chunks[k] # <<>>
        /\ (ct_n = 0 => ct_chunks = <<>>)

\* C5: for 0 <= overlap < chunk_size every window after the first shares
\* exactly overlap token positions with its predecessor and starts exactly
\* chunk_size - overlap after it; only a final short window may differ.
C5_ExactOverlap ==
    ct_regular =>
        \A k \in 2..Len(ct_chunks) :
            \/ /\ Cardinality(TokensOf(ct_chunks[k - 1]) \cap TokensOf(ct_chunks[k]))
                    = ct_overlap
               /\ ct_chunks[k] # <<>>
               /\ ct_chunks[k - 1] # <<>>
               /\ ct_chunks[k][1] - ct_chunks[k - 1][1] = ct_chunk_size - ct_overlap
            \/ /\ ct_done
               /\ k = Len(ct_chunks)
               /\ Len(ct_chunks[k]) < ct_chunk_size

\* C5: a run with overlap >= 1 returned at least three windows, the last one
\* short.
C5_Witness ==
    /\ ct_done
    /\ ct_regular
    /\ ct_overlap >= 1
    /\ Len(ct_chunks) >= 3
    /\ Len(ct_chunks[Len(ct_chunks)]) < ct_chunk_size

\* the window [lo, hi) of the tokens
Window(lo, hi) == [j \in 1..(hi - lo) |-> lo + j - 1]

\* C6: for n tokens and 0 <= overlap < chunk_size the result is exactly the
\* windows [k*s, min(k*s + chunk_size, n)), k = 0..m-1, s = chunk_size -
\* overlap, m = 1 if 0 < n <= chunk_size and 1 + ceil((n - chunk_size)/s)
\* otherwise; 1000 tokens with 350/60 give [0,350) [290,640) [580,930)
\* [870,1000).
C6_WindowFormula ==
    (ct_done /\ ct_regular) =>
        LET s == ct_chunk_size - ct_overlap
            m == IF 0 < ct_n /\ ct_n <= ct_chunk_size THEN 1
                 ELSE 1 + CeilDiv(ct_n - ct_chunk_size, s)
        IN  /\ Len(ct_chunks) = Max(0, m)
            /\ \A k \in 0..(m - 1) :
                  ct_chunks[k + 1] =
                      Window(k * s, Min(k * s + ct_chunk_size, ct_n))
            /\ (<<ct_n, ct_chunk_size, ct_overlap>> = Scenario =>
                  ct_chunks = << Window(0, 350), Window(290, 640),
                                 Window(580, 930), Window(870, 1000) >>)

\* C6: the 1000-word document with the default parameters gave four windows.
C6_Witness ==
    /\ ct_done
    /\ <<ct_n, ct_chunk_size, ct_overlap>> = Scenario
    /\ Len(ct_chunks) = 4

\* the last window ends at the last token, and no window follows a window
\* that reaches the end
LastWindowReachesEnd ==
    (ct_done /\ ct_chunk_size >= 1) =>
        /\ (ct_chunks # <<>> =>
               /\ ct_chunks[Len(ct_chunks)] # <<>>
               /\ ct_chunks[Len(ct_chunks)][Len(ct_chunks[Len(ct_chunks)])] = ct_n - 1)
        /\ \A k \in 1..(Len(ct_chunks) - 1) :
               (ct_n - 1) \notin TokensOf(ct_chunks[k])

\* C7: the loop terminates for every token sequence and all integer
\* parameters, and for chunk_size >= 1 the last window ends at the last token
\* and no window is emitted after one that reaches the end.
C7_TerminatesAtEnd == <>ct_done /\ []LastWindowReachesEnd

\* The part of C7 that holds: the loop always terminates.
ChunkTerminates == <>ct_done

\* The loop and the function agree on the result.
ChunkLoopIsChunkText ==
    ct_done => ct_chunks = chunk_windows(ct_words, ct_chunk_size, ct_overlap)

-----------------------------------------------------------------------------
(* One call of should_drop_chunk, for each of its three definitions *)

\* argparse defaults of chunk_ar.py / chunk_fr.py, thresholds in hundredths
DefaultMinCharsAr == 60
DefaultMinCharsFr == 50
DefaultMinWords == 6
DefaultDigitsPunctDrop == 60
DefaultMovieDigitsDrop == 30

\* Section titles: none, an English, a French and an Arabic front-matter title
\* (the Arabic one also glued to a preceding letter), and an ordinary title.
TitleSamples ==
    { <<>>,
      <<"T", "a", "b", "l", "e", " ", "o", "f", " ", "C", "o", "n", "t", "e", "n", "t", "s">>,
      <<"S", "O", "M", "M", "A", "I", "R", "E">>,
      <<"ALEF", "LAM", "FEH", "HEH", "REH", "SEEN">>,
      <<"BEH", "ALEF", "LAM", "FEH", "HEH", "REH", "SEEN">>,
      <<"SHEEN", "KAF", "REH", "WAW", "TEH", "QAF", "DAL", "YEH", "REH">>,
      <<"P", "a", "r", "t", " ", "1">> }

\* A content of `total` characters in `words` words: words-1 one-character
\* words `ch`, each followed by a space, then one word of `fill`.
MkContent(words, total, ch, fill) ==
    [i \in 1..total |->
        IF i <= 2 * (words - 1) THEN (IF i % 2 = 1 THEN ch ELSE " ") ELSE fill]

\* thirteen four-character words, the first one `head`, the others "ab12"
MkSubtitle(head) ==
    Join([i \in 1..13 |-> IF i = 1 THEN head ELSE <<"a", "b", "1", "2">>])

ContentSamples ==
    { <<>> }
    \cup { MkContent(w, total, ch, fill) :
              w \in {1, 5, 6}, total \in {11, 49, 50, 59, 60, 500},
              ch \in {"a", "1"}, fill \in {"b", "7", "."} }
    \cup { MkSubtitle(<<"T", "2", "b", "1">>),
           MkSubtitle(<<"t", "2", "b", "c">>),
           MkSubtitle(<<"a", "b", "1", "2">>),
           MkSubtitle(<<"TEH", "YEH", "ARABIC_INDIC_DIGIT_TWO", "1">>),
           MkSubtitle(<<"T", "2", "b", "c">>) \o <<" ", "a", "b", "c", "d", "e", "f", "g", "h">> }

\* (min_chars, min_words) given on the command line: the defaults, small
\* values, and a min_chars above 500
ThresholdSamples(default_min_chars) ==
    { <<default_min_chars, DefaultMinWords>>, <<3, 1>>, <<501, 1>> }

HygieneInit ==
    /\ hy_script \in {"chunk_ar", "chunk_fr", "hygiene"}
    /\ hy_lang \in {"en", "fr", "ar"}
    /\ hy_script = "chunk_ar" => hy_lang = "ar"
    /\ hy_script = "chunk_fr" => hy_lang = "fr"
    /\ hy_title \in TitleSamples
    /\ hy_content \in ContentSamples
    /\ \E th \in ThresholdSamples(IF hy_lang = "ar" THEN DefaultMinCharsAr
                                                  ELSE DefaultMinCharsFr) :
          /\ hy_min_chars = th[1]
          /\ hy_min_words = th[2]
    /\ hy_script = "hygiene" => (hy_min_chars = MIN_CHARS(hy_lang) /\ hy_min_words = MIN_WORDS)
    /\ hy_result = <<FALSE, "">>
    /\ hy_pc = "call"
    /\ ChunkIdle
    /\ MainIdle
    /\ NormalizeIdle
    /\ SectionsIdle
    /\ CleanIdle
    /\ UpsertIdle
    /\ MergeIdle
    /\ BuildIdle
    /\ UploadIdle
    /\ MirrorIdle
    /\ PagesIdle

CallChunkAr ==
    /\ hy_pc = "call"
    /\ hy_script = "chunk_ar"
    /\ hy_result' = ar_should_drop_chunk(hy_title, hy_content, hy_min_chars, hy_min_words,
                                         DefaultDigitsPunctDrop, DefaultMovieDigitsDrop)
    /\ hy_pc' = "returned"
    /\ UNCHANGED <<hy_script, hy_lang, hy_title, hy_content, hy_min_chars, hy_min_words>>
    /\ UNCHANGED hy_others

CallChunkFr ==
    /\ hy_pc = "call"
    /\ hy_script = "chunk_fr"
    /\ hy_result' = fr_should_drop_chunk(hy_title, hy_content, hy_min_chars, hy_min_words,
                                         DefaultDigitsPunctDrop)
    /\ hy_pc' = "returned"
    /\ UNCHANGED <<hy_script, hy_lang, hy_title, hy_content, hy_min_chars, hy_min_words>>
    /\ UNCHANGED hy_others

\* should_drop_chunk of hygiene.py is to be called: the file is loaded first,
\* and line 18 raises
CallHygiene ==
    /\ hy_pc = "call"
    /\ hy_script = "hygiene"
    /\ hy_result' = LETTER_RE
    /\ hy_pc' = "raised"
    /\ UNCHANGED <<hy_script, hy_lang, hy_title, hy_content, hy_min_chars, hy_min_words>>
    /\ UNCHANGED hy_others

HygieneNext == CallChunkAr \/ CallChunkFr \/ CallHygiene

SpecHygiene == HygieneInit /\ [][HygieneNext]_vars

-----------------------------------------------------------------------------
(* Properties of should_drop_chunk *)

hy_returned == hy_pc = "returned"

\* the conditions of the four rules, for the call in progress
hy_TooShort ==
    \/ hy_content = <<>>
    \/ Len(hy_content) < hy_min_chars
    \/ Len(Split(hy_content)) < hy_min_words

hy_Boilerplate ==
    IF hy_script = "chunk_ar" THEN ar_is_boilerplate_title(hy_title)
    ELSE IF hy_script = "chunk_fr" THEN fr_is_boilerplate_title(hy_title)
    ELSE hy_title # <<>> /\ TITLE_PATTERNS(hy_lang, hy_title)

hy_DigitsPunctHeavy ==
    (Len(hy_content) - CountAlpha(hy_content)) * 100
        > DefaultDigitsPunctDrop * Len(hy_content)

hy_MovieSubs ==
    /\ hy_lang = "ar"
    /\ AR_MOVIE_TERMS(hy_content)
    /\ CountDigits(hy_content) * 100 > DefaultMovieDigitsDrop * Len(hy_content)

\* C8: should_drop_chunk returns the reason of the first rule that matches in
\* the order too_short, boilerplate_title, digits_punct_heavy, ar_movie_subs
\* (Arabic only) and (False, "") when none matches; a chunk that is too short
\* under a boilerplate title is reported too_short; the reason is empty
\* exactly when dropped is false.
C8_FirstRuleWins ==
    hy_pc \in {"returned", "raised"} =>
        LET r1 == hy_TooShort
            r2 == hy_Boilerplate
            r3 == hy_DigitsPunctHeavy
            r4 == hy_MovieSubs
        IN  /\ hy_returned
            /\ r1 => hy_result = <<TRUE, "too_short">>
            /\ (~r1 /\ r2) => hy_result = <<TRUE, "boilerplate_title">>
            /\ (~r1 /\ ~r2 /\ r3) => hy_result = <<TRUE, "digits_punct_heavy">>
            /\ (~r1 /\ ~r2 /\ ~r3 /\ r4) => hy_result = <<TRUE, "ar_movie_subs">>
            /\ (~r1 /\ ~r2 /\ ~r3 /\ ~r4) => hy_result = <<FALSE, "">>
            /\ (r1 /\ r2) => hy_result = <<TRUE, "too_short">>
            /\ (hy_result[2] = "") <=> (hy_result[1] = FALSE)

\* The part of C8 that holds: the functions of chunk_ar.py and chunk_fr.py
\* return the reason of the first rule that matches.
FirstRuleWinsInChunkers ==
    (hy_pc \in {"returned", "raised"} /\ hy_script # "hygiene") =>
        LET r1 == hy_TooShort
            r2 == hy_Boilerplate
            r3 == hy_DigitsPunctHeavy
            r4 == hy_MovieSubs
        IN  /\ hy_returned
            /\ r1 => hy_result = <<TRUE, "too_short">>
            /\ (~r1 /\ r2) => hy_result = <<TRUE, "boilerplate_title">>
            /\ (~r1 /\ ~r2 /\ r3) => hy_result = <<TRUE, "digits_punct_heavy">>
            /\ (~r1 /\ ~r2 /\ ~r3 /\ r4) => hy_result = <<TRUE, "ar_movie_subs">>
            /\ (~r1 /\ ~r2 /\ ~r3 /\ ~r4) => hy_result = <<FALSE, "">>
            /\ (hy_result[2] = "") <=> (hy_result[1] = FALSE)

\* The function of hygiene.py never returns: whatever the arguments, the
\* attempt ends with the re.error of line 18.
HygieneNeverReturns ==
    (hy_pc \in {"returned", "raised"} /\ hy_script = "hygiene") =>
        (hy_pc = "raised" /\ hy_result = Raised("re.error"))

\* an attempt to call the function of hygiene.py, on a chunk that no rule
\* matches, ended with the exception
HygieneRaised ==
    /\ hy_pc = "raised"
    /\ hy_script = "hygiene"
    /\ hy_result = Raised("re.error")
    /\ ~hy_TooShort /\ ~hy_Boilerplate /\ ~hy_DigitsPunctHeavy /\ ~hy_MovieSubs

\* C8: a call returned too_short for content that is too short under a
\* boilerplate title.
C8_Witness ==
    /\ hy_returned
    /\ hy_TooShort
    /\ hy_Boilerplate
    /\ hy_result = <<TRUE, "too_short">>

\* the title matches the boilerplate pattern of the call's language and the
\* content is 500 characters long
hy_BoilerplateCase == hy_returned /\ hy_Boilerplate /\ Len(hy_content) = 500

\* C9: a chunk under a boilerplate title whose content is 500 characters long
\* is dropped with reason boilerplate_title whatever the content consists of.
C9_BoilerplateAnyContent ==
    hy_BoilerplateCase => hy_result = <<TRUE, "boilerplate_title">>

\* C9, for the functions of chunk_ar.py and chunk_fr.py and content that is
\* not too short: a chunk under a boilerplate title whose content is 500
\* characters long and has at least min_words words, with min_chars at most
\* 500, is dropped with reason boilerplate_title whatever else the content
\* consists of.
C9_BoilerplateLongEnough ==
    (/\ hy_script \in {"chunk_ar", "chunk_fr"}
     /\ hy_BoilerplateCase
     /\ Len(Split(hy_content)) >= hy_min_words
     /\ hy_min_chars <= 500)
        => hy_result = <<TRUE, "boilerplate_title">>

\* C9: chunk_fr.py, a boilerplate title over 500 characters without a single
\* letter, in enough words: the reason is boilerplate_title.
C9_Witness ==
    /\ hy_BoilerplateCase
    /\ hy_script = "chunk_fr"
    /\ fr_is_boilerplate_title(hy_title)
    /\ Len(Split(hy_content)) >= hy_min_words
    /\ hy_min_chars <= 500
    /\ CountAlpha(hy_content) = 0
    /\ hy_result = <<TRUE, "boilerplate_title">>

-----------------------------------------------------------------------------
(* main() of chunk_ar.py and chunk_fr.py *)

MaxRows == 2

\* content_fingerprint of chunk_ar.py
ar_content_fingerprint(content, do_normalize) ==
    LET txt == IF do_normalize THEN normalize_arabic(content) ELSE content
    IN  sha1(Strip(NFKC(txt)))

\* content_fingerprint of chunk_fr.py
fr_content_fingerprint(content) == sha1(Strip(NFKC(content)))

\* h, as main computes it for a chunk when --dedupe is set
DedupeKey(scr, chunk) ==
    IF scr = "chunk_ar" THEN ar_content_fingerprint(chunk, TRUE)
    ELSE fr_content_fingerprint(chunk)

\* the language tag a script lets through
GateLanguage(scr) == IF scr = "chunk_ar" THEN <<"a", "r">> ELSE <<"f", "r">>

\* the call of should_drop_chunk in main
MainShouldDrop(scr, a, title, chunk) ==
    IF scr = "chunk_ar"
    THEN ar_should_drop_chunk(title, chunk, a.min_chars, a.min_words,
                              a.digits_punct_drop, a.ar_movie_digits_drop)
    ELSE fr_should_drop_chunk(title, chunk, a.min_chars, a.min_words, a.digits_punct_drop)

\* text_for_chunking (chunk_ar.py) / text (chunk_fr.py)
TextForChunking(scr, a, raw_text) ==
    IF scr = "chunk_ar" /\ a.normalize THEN normalize_arabic(raw_text) ELSE raw_text

\* out_content with the title prepended whenever --prepend_title is set
OutContent_AlwaysPrefixed(scr, a, title, chunk) ==
    LET base == IF scr = "chunk_ar" /\ a.normalize THEN normalize_arabic(chunk) ELSE chunk
    IN  IF a.prepend_title THEN <<"[">> \o title \o <<"]", " ">> \o base ELSE base

\* out_content: optionally normalized, optionally prefixed with the title
OutContent(scr, a, title, chunk) ==
    LET base == IF scr = "chunk_ar" /\ a.normalize THEN normalize_arabic(chunk) ELSE chunk
    IN  IF a.prepend_title /\ title # <<>> /\ ~StartsWith(Strip(base), <<"[">>)
        THEN <<"[">> \o title \o <<"]", " ">> \o base
        ELSE base

\* f"{pack_id}_{page}_{i}_{suffix}": the text up to the suffix, and the
\* suffix, which is always 8 hex characters long
ChunkId(pack, pg, k, suffix) ==
    [prefix |-> pack \o <<"_">> \o Str(pg) \o <<"_">> \o Str(k) \o <<"_">>,
     suffix |-> suffix]

\* a set that learns the fingerprint whether or not --dedupe is set
SeenAfterAccept_Always(seen, dedupe, h) == seen \cup {h}

\* a set that never learns a fingerprint
SeenAfterAccept_Forget(seen, dedupe, h) == seen

\* a set that remembers the first fingerprint only
SeenAfterAccept_FirstOnly(seen, dedupe, h) ==
    IF dedupe /\ seen = {} THEN {h} ELSE seen

\* a set that remembers the last fingerprint only
SeenAfterAccept_LastOnly(seen, dedupe, h) == IF dedupe THEN {h} ELSE seen

\* seen_hashes after a chunk was accepted
SeenAfterAccept(seen, dedupe, h) == IF dedupe THEN seen \cup {h} ELSE seen

\* the count of a reason set to one instead of raised by one
Incremented_Reset(d, r) ==
    [k \in (DOMAIN d) \cup {r} |-> IF k = r THEN 1 ELSE d[k]]

\* d[r] = d.get(r, 0) + 1
Incremented(d, r) ==
    [k \in (DOMAIN d) \cup {r} |->
        IF k = r THEN (IF r \in DOMAIN d THEN d[r] ELSE 0) + 1 ELSE d[k]]

\* The words of the sample rows
WordBab == <<"BEH", "ALEF", "BEH">>

WordBabFatha == <<"BEH", "FATHA", "ALEF", "BEH">>

WordAb == <<"ALEF", "BEH">>

WordTag == <<"[", "T", "]">>

WordT2 == <<"T", "2", "b", "b", "1">>

TitlePlain == <<"T">>

TitleBoilerplate(scr) ==
    IF scr = "chunk_ar" THEN <<"ALEF", "LAM", "FEH", "HEH", "REH", "SEEN">>
    ELSE <<"S", "o", "m", "m", "a", "i", "r", "e">>

\* a line that holds the JSON of a row
Row(lang, pack, pg, title, content) ==
    [json |-> TRUE, language |-> lang, pack_id |-> pack, page |-> pg,
     section_title |-> title, content |-> content]

\* a line json.loads cannot parse
Unparsable ==
    [json |-> FALSE, language |-> <<>>, pack_id |-> <<>>, page |-> 0,
     section_title |-> <<>>, content |-> <<>>]

\* The lines a run of script scr may find in its input file.
Lines(scr) ==
    LET L == GateLanguage(scr)
        A == <<"A">>
    IN  { Row(L, A, 1, TitlePlain, Join(<<WordBab, WordAb>>)),
          Row([k \in 1..2 |-> LatinUpper[CHOOSE j \in 1..26 : LatinLower[j] = L[k]]],
              A, 1, TitlePlain, Join(<<WordBabFatha, WordAb>>)),
          Row(L, A, 1, <<>>, Join(<<WordTag, WordBab, WordAb>>)),
          Row(L, A, 2, TitlePlain, Join(<<WordBab, WordAb, WordBab, WordAb, WordAb>>)),
          Row(L, <<"B">>, 1, TitleBoilerplate(scr), <<" ">> \o Join(<<WordBab, WordAb>>)),
          Row(L, <<"B">>, 2, TitlePlain, Join(<<<<"1", "2">>, <<"3", "4">>, WordT2, WordT2>>)),
          Row(<<"e", "n">>, A, 1, TitlePlain, Join(<<WordBab, WordAb>>)),
          Row(L, A, 3, TitlePlain, <<" ">>),
          Row(L, A, 2, TitlePlain, Join(<<WordTag, WordAb>>)),
          Unparsable }

\* The command lines: (chunk_size, overlap) regular, and with chunk_size <= 0
\* or chunk_size <= overlap; small --min_chars and --min_words.
ArgSamples ==
    { [chunk_size |-> c[1], overlap |-> c[2], min_chars |-> 3, min_words |-> 1,
       digits_punct_drop |-> DefaultDigitsPunctDrop,
       ar_movie_digits_drop |-> DefaultMovieDigitsDrop,
       prepend_title |-> pt, normalize |-> nz, dedupe |-> dd] :
         c \in { <<2, 0>>, <<3, 1>>, <<0, 0>>, <<2, 2>> },
         pt \in BOOLEAN, nz \in BOOLEAN, dd \in BOOLEAN }

Inputs(scr) == UNION { [1..n -> Lines(scr)] : n \in 0..MaxRows }

\* the chunks a run of script scr with the command line a can come to
SampleChunks(scr, a) ==
    UNION { { chunk_text(TextForChunking(scr, a, Strip(l.content)),
                         a.chunk_size, a.overlap)[k] :
                k \in 1..Len(chunk_text(TextForChunking(scr, a, Strip(l.content)),
                                        a.chunk_size, a.overlap)) } :
            l \in { r \in Lines(scr) : r.json } }

\* the texts such runs hash: what they write and what they fingerprint
SampleHashedTexts ==
    UNION { UNION { { OutContent(scr, a, l.section_title, ch) :
                        l \in Lines(scr), ch \in SampleChunks(scr, a) }
                    \cup { DedupeKey(scr, ch).sha1 : ch \in SampleChunks(scr, a) } :
                    a \in ArgSamples } : scr \in {"chunk_ar", "chunk_fr"} }

\* hexdigest()[:8] of these texts, computed once
SamplePrefixes ==
    [text \in SampleHashedTexts |-> SubSeq(hexdigest(Utf8(text)), 1, 8)] @@ <<>>

\* the first 8 hex characters of the digest of a text
Prefix8(text) ==
    IF text \in DOMAIN SamplePrefixes THEN SamplePrefixes[text]
    ELSE SubSeq(hexdigest(Utf8(text)), 1, 8)

\* hashlib.sha1(s.encode(...)).hexdigest()[:8]
short_sha(s) == Prefix8(s)

\* fp[:8] of a digest fp
Truncate8(fp) == Prefix8(fp.sha1)

MainInit ==
    /\ script \in {"chunk_ar", "chunk_fr"}
    /\ args \in ArgSamples
    /\ script = "chunk_fr" => ~args.normalize
    /\ input \in Inputs(script)
    /\ line_no = 0
    /\ count_rows = 0
    /\ kept = 0
    /\ dropped = 0
    /\ stats_by_reason = <<>>
    /\ seen_hashes = {}
    /\ fout = <<>>
    /\ section_title = <<>>
    /\ pack_id = <<>>
    /\ page = 0
    /\ chunks = <<>>
    /\ idx = 0
    /\ pc = "start"
    /\ report = <<>>
    /\ log = <<>>
    /\ ChunkIdle
    /\ HygieneIdle
    /\ NormalizeIdle
    /\ SectionsIdle
    /\ CleanIdle
    /\ UpsertIdle
    /\ MergeIdle
    /\ BuildIdle
    /\ UploadIdle
    /\ MirrorIdle
    /\ PagesIdle

\* args = p.parse_args(); the counters are set; the two files are opened
Start ==
    /\ pc = "start"
    /\ pc' = "read"
    /\ UNCHANGED <<script, args, input, line_no, count_rows, kept, dropped,
                   stats_by_reason, seen_hashes, fout, section_title, pack_id, page,
                   chunks, idx, report, log>>
    /\ UNCHANGED m_others

\* the line the for loop takes next
NextLine == input[line_no + 1]

CanRead == pc = "read" /\ line_no < Len(input)

\* json.loads(line) raises: the exception leaves main
ReadUnparsable ==
    /\ CanRead
    /\ ~NextLine.json
    /\ line_no' = line_no + 1
    /\ count_rows' = count_rows + 1
    /\ pc' = "crashed"
    /\ UNCHANGED <<script, args, input, kept, dropped, stats_by_reason, seen_hashes,
                   fout, section_title, pack_id, page, chunks, idx, report, log>>
    /\ UNCHANGED m_others

\* the language gate counting the row as a dropped chunk
SkipLanguage_AsDropped ==
    /\ CanRead
    /\ NextLine.json
    /\ LowerText(NextLine.language) # GateLanguage(script)
    /\ line_no' = line_no + 1
    /\ count_rows' = count_rows + 1
    /\ dropped' = dropped + 1
    /\ UNCHANGED <<script, args, input, kept, stats_by_reason, seen_hashes,
                   fout, section_title, pack_id, page, chunks, idx, pc, report, log>>
    /\ UNCHANGED m_others

\* the language gate: continue
SkipLanguage ==
    /\ CanRead
    /\ NextLine.json
    /\ LowerText(NextLine.language) # GateLanguage(script)
    /\ line_no' = line_no + 1
    /\ count_rows' = count_rows + 1
    /\ UNCHANGED <<script, args, input, kept, dropped, stats_by_reason, seen_hashes,
                   fout, section_title, pack_id, page, chunks, idx, pc, report, log>>
    /\ UNCHANGED m_others

\* no content after strip(): continue
SkipEmpty ==
    /\ CanRead
    /\ NextLine.json
    /\ LowerText(NextLine.language) = GateLanguage(script)
    /\ Strip(NextLine.content) = <<>>
    /\ line_no' = line_no + 1
    /\ count_rows' = count_rows + 1
    /\ UNCHANGED <<script, args, input, kept, dropped, stats_by_reason, seen_hashes,
                   fout, section_title, pack_id, page, chunks, idx, pc, report, log>>
    /\ UNCHANGED m_others

\* the row is chunked
ReadRow ==
    /\ CanRead
    /\ NextLine.json
    /\ LowerText(NextLine.language) = GateLanguage(script)
    /\ Strip(NextLine.content) # <<>>
    /\ line_no' = line_no + 1
    /\ count_rows' = count_rows + 1
    /\ chunks' = chunk_text(TextForChunking(script, args, Strip(NextLine.content)),
                            args.chunk_size, args.overlap)
    /\ section_title' = NextLine.section_title
    /\ pack_id' = NextLine.pack_id
    /\ page' = NextLine.page
    /\ idx' = 0
    /\ pc' = IF chunks' = <<>> THEN "read" ELSE "chunk"
    /\ UNCHANGED <<script, args, input, kept, dropped, stats_by_reason, seen_hashes,
                   fout, report, log>>
    /\ UNCHANGED m_others

\* the chunk the inner loop is at, and what main computes from it
Chunk == chunks[idx + 1]

Decision == MainShouldDrop(script, args, section_title, Chunk)

LogEntry(outcome) ==
    [line |-> line_no, i |-> idx, chunk |-> Chunk,
     fingerprint |-> DedupeKey(script, Chunk), outcome |-> outcome]

\* the inner loop goes to the next chunk, or the outer loop to the next line
AfterChunk ==
    /\ idx' = idx + 1
    /\ pc' = IF idx + 1 < Len(chunks) THEN "chunk" ELSE "read"

\* a hygiene rule drops the chunk
DropHygiene ==
    /\ pc = "chunk"
    /\ Decision[1]
    /\ dropped' = dropped + 1
    /\ stats_by_reason' = Incremented(stats_by_reason, Decision[2])
    /\ log' = Append(log, LogEntry(Decision[2]))
    /\ AfterChunk
    /\ UNCHANGED <<script, args, input, line_no, count_rows, kept, seen_hashes, fout,
                   section_title, pack_id, page, chunks, report>>
    /\ UNCHANGED m_others

\* the fingerprint was seen: dedupe_exact
DropDuplicate ==
    /\ pc = "chunk"
    /\ ~Decision[1]
    /\ args.dedupe
    /\ DedupeKey(script, Chunk) \in seen_hashes
    /\ dropped' = dropped + 1
    /\ stats_by_reason' = Incremented(stats_by_reason, "dedupe_exact")
    /\ log' = Append(log, LogEntry("dedupe_exact"))
    /\ AfterChunk
    /\ UNCHANGED <<script, args, input, line_no, count_rows, kept, seen_hashes, fout,
                   section_title, pack_id, page, chunks, report>>
    /\ UNCHANGED m_others

\* the chunk is written to the output
Emit ==
    /\ pc = "chunk"
    /\ ~Decision[1]
    /\ ~(args.dedupe /\ DedupeKey(script, Chunk) \in seen_hashes)
    /\ seen_hashes' = SeenAfterAccept(seen_hashes, args.dedupe, DedupeKey(script, Chunk))
    /\ LET out_content == OutContent(script, args, section_title, Chunk)
           suffix == short_sha(out_content)
       IN  fout' = Append(fout,
                     [language |-> GateLanguage(script), pack_id |-> pack_id,
                      section_title |-> section_title, page |-> page,
                      chunk_id |-> ChunkId(pack_id, page, idx, suffix),
                      content |-> out_content])
    /\ kept' = kept + 1
    /\ log' = Append(log, LogEntry("kept"))
    /\ AfterChunk
    /\ UNCHANGED <<script, args, input, line_no, count_rows, dropped, stats_by_reason,
                   section_title, pack_id, page, chunks, report>>
    /\ UNCHANGED m_others

\* the input is exhausted: the two print calls
Finish ==
    /\ pc = "read"
    /\ line_no = Len(input)
    /\ report' = [read |-> count_rows, wrote |-> kept, dropped |-> dropped,
                  breakdown |-> stats_by_reason]
    /\ pc' = "done"
    /\ UNCHANGED <<script, args, input, line_no, count_rows, kept, dropped,
                   stats_by_reason, seen_hashes, fout, section_title, pack_id, page,
                   chunks, idx, log>>
    /\ UNCHANGED m_others

Next ==
    \/ Start
    \/ ReadUnparsable
    \/ SkipLanguage
    \/ SkipEmpty
    \/ ReadRow
    \/ DropHygiene
    \/ DropDuplicate
    \/ Emit
    \/ Finish

Spec == MainInit /\ [][Next]_vars

-----------------------------------------------------------------------------
(* Properties of the main loop *)

m_done == pc = "done"

\* the chunks the hygiene rules let through
PassedHygiene(e) == e.outcome \in {"kept", "dedupe_exact"}

\* an earlier chunk of the run with the same fingerprint was emitted
AcceptedEarlier(b) ==
    \E a \in 1..(b - 1) :
        log[a].outcome = "kept" /\ log[a].fingerprint = log[b].fingerprint

\* the chunks of the run whose normalized content is that of chunk b
SameContent(b) == { a \in 1..Len(log) : log[a].fingerprint = log[b].fingerprint }

\* C1: with --dedupe, a chunk that passed the hygiene rules is dropped with
\* reason dedupe_exact if and only if a chunk with the same content
\* fingerprint was emitted earlier in the run; the emitted records are the
\* chunks that were not dropped, in order.
C1_DuplicateIffAcceptedEarlier ==
    args.dedupe =>
        /\ \A b \in 1..Len(log) :
              PassedHygiene(log[b]) =>
                  (log[b].outcome = "dedupe_exact" <=> AcceptedEarlier(b))
        /\ Len(fout) = Cardinality({ b \in 1..Len(log) : log[b].outcome = "kept" })
        /\ kept = Len(fout)

\* C1: a run has ended in which a chunk of one row was dropped as the
\* duplicate of a chunk emitted for an earlier row.
C1_Witness ==
    /\ m_done
    /\ args.dedupe
    /\ \E b \in 1..Len(log) :
          /\ log[b].outcome = "dedupe_exact"
          /\ \E a \in 1..(b - 1) :
                /\ log[a].outcome = "kept"
                /\ log[a].fingerprint = log[b].fingerprint
                /\ log[a].line < log[b].line
                /\ log[a].chunk # log[b].chunk

\* C2 as stated: with --dedupe, of several chunks with the same normalized
\* content exactly one is kept, the first in processing order, and each later
\* one is dropped with reason dedupe_exact and no other reason.
C2_OneKeptOfIdentical ==
    (args.dedupe /\ m_done) =>
        \A b \in 1..Len(log) :
            Cardinality(SameContent(b)) > 1 =>
                IF \A a \in SameContent(b) : b <= a
                THEN log[b].outcome = "kept"
                ELSE log[b].outcome = "dedupe_exact"

\* C2, restricted to the chunks that reach the duplicate test: with
\* --dedupe, of several chunks with the same normalized content that pass the
\* hygiene rules exactly one is kept, the first of them in processing order,
\* and each later one is dropped with reason dedupe_exact.
C2_OneKeptOfIdenticalPassed ==
    (args.dedupe /\ m_done) =>
        \A b \in 1..Len(log) :
            LET same == { a \in SameContent(b) : PassedHygiene(log[a]) }
            IN  (b \in same /\ Cardinality(same) > 1) =>
                    /\ Cardinality({ a \in same : log[a].outcome = "kept" }) = 1
                    /\ IF \A a \in same : b <= a
                       THEN log[b].outcome = "kept"
                       ELSE log[b].outcome = "dedupe_exact"

\* C2: a run has ended in which three chunks with the same normalized content
\* passed the hygiene rules: one was kept, two were dropped as duplicates.
C2_Witness ==
    /\ m_done
    /\ args.dedupe
    /\ \E b \in 1..Len(log) :
          LET same == { a \in SameContent(b) : PassedHygiene(log[a]) }
          IN  /\ Cardinality(same) >= 3
              /\ Cardinality({ a \in same : log[a].outcome = "dedupe_exact" }) >= 2

\* C3: with --dedupe, no two records emitted in one run have the same
\* chunk_id.
C3_ChunkIdUnique ==
    args.dedupe =>
        \A a, b \in 1..Len(fout) :
            a # b => fout[a].chunk_id # fout[b].chunk_id

\* chunk_size <= 0 or chunk_size <= overlap
BadConfig == args.chunk_size <= 0 \/ args.chunk_size <= args.overlap

\* C10: a run configured with chunk_size <= 0 or chunk_size <= overlap stops
\* at startup: no input row is read, no record is emitted, and the run does
\* not reach its normal end.
C10_BadConfigFatal ==
    BadConfig => (line_no = 0 /\ fout = <<>> /\ ~m_done)

\* C11: a line that cannot be parsed, or a row whose content is missing or
\* empty, is skipped and counted as a row read and the run goes on with the
\* next row: no such row aborts the run, so every line of the input gets
\* counted.
C11_BadRowsSkipped ==
    /\ pc # "crashed"
    /\ count_rows = line_no
    /\ (m_done => count_rows = Len(input))

\* What does hold: a row with empty content is skipped and counted.
EmptyRowsSkipped ==
    [][(CanRead /\ NextLine.json /\ LowerText(NextLine.language) = GateLanguage(script)
          /\ Strip(NextLine.content) = <<>>)
        => (count_rows' = count_rows + 1 /\ pc' = "read"
              /\ UNCHANGED <<kept, dropped, stats_by_reason, seen_hashes, fout>>)]_vars

\* main can take a step: it is before the loop, at a line of the input or at
\* the end of the input, or at a chunk of the row
CanStep == pc \in {"start", "read", "chunk"}

\* C12: every run over a finite input eventually reaches the final report of
\* rows read, chunks kept, chunks dropped and the per-reason breakdown.  Every
\* step of main consumes a line or a chunk of the finite input, so a run
\* reaches the report exactly if it never stops before the report is printed.
C12_EventuallyReports ==
    \/ CanStep
    \/ /\ m_done
       /\ report = [read |-> count_rows, wrote |-> kept, dropped |-> dropped,
                    breakdown |-> stats_by_reason]

\* What does hold: a run that has stopped has printed the report or has left
\* main in the exception of json.loads.
RunEnds == CanStep \/ pc \in {"done", "crashed"}

\* the decisions that emitted a record, in order
KeptEntries == SelectSeq(log, LAMBDA e : e.outcome = "kept")

\* C13: the chunk_id of every emitted record is pack_id, page, i and s joined
\* by underscores, i the 0-based index of the chunk among all windows of its
\* row and s the first 8 hex characters of the chunk's content fingerprint,
\* the digest whose full form is the dedup key.
C13_ChunkIdFromFingerprint ==
    \A k \in 1..Len(fout) :
        /\ k <= Len(KeptEntries)
        /\ fout[k].chunk_id = ChunkId(fout[k].pack_id, fout[k].page, KeptEntries[k].i,
                                      Truncate8(KeptEntries[k].fingerprint))

\* What does hold: the index in the chunk_id is the index of the window in its
\* row, and the suffix is the truncated digest of the emitted content.
ChunkIdFromOutContent ==
    \A k \in 1..Len(fout) :
        /\ k <= Len(KeptEntries)
        /\ fout[k].chunk_id = ChunkId(fout[k].pack_id, fout[k].page, KeptEntries[k].i,
                                      short_sha(fout[k].content))

\* the fingerprints of the records emitted so far
EmittedFingerprints == { KeptEntries[k].fingerprint : k \in 1..Len(KeptEntries) }

\* the dedup set as C15 has it: the fingerprints of the emitted records with
\* --dedupe, empty without; never a dedupe_exact drop without --dedupe, where
\* every chunk that passes hygiene is emitted
SeenIsEmitted ==
    /\ args.dedupe => seen_hashes = EmittedFingerprints
    /\ ~args.dedupe =>
          /\ seen_hashes = {}
          /\ \A b \in 1..Len(log) : log[b].outcome # "dedupe_exact"
          /\ \A b \in 1..Len(log) : PassedHygiene(log[b]) => log[b].outcome = "kept"

\* C15 as stated: at every point of a run, with --dedupe seen_hashes is the
\* set of fingerprints of the records emitted so far, it only grows and it
\* never contains the fingerprint of a chunk dropped by a hygiene rule;
\* without --dedupe it stays empty, no chunk is dropped as dedupe_exact and
\* identical chunks that pass hygiene are all emitted.
C15_SeenHashes ==
    /\ [](SeenIsEmitted
            /\ \A b \in 1..Len(log) :
                  ~PassedHygiene(log[b]) => log[b].fingerprint \notin seen_hashes)
    /\ [][seen_hashes \subseteq seen_hashes']_vars

\* C15, with the hygiene drops put right: seen_hashes is the set of
\* fingerprints of the emitted records and only grows; a chunk dropped by a
\* hygiene rule never adds its fingerprint, which is in the set only if an
\* emitted record has the same fingerprint; without --dedupe the set stays
\* empty, no chunk is dropped as dedupe_exact and identical chunks that pass
\* hygiene are all emitted.
C15_SeenHashesOfEmitted ==
    /\ [](SeenIsEmitted
            /\ \A b \in 1..Len(log) :
                  (~PassedHygiene(log[b]) /\ log[b].fingerprint \in seen_hashes)
                      => log[b].fingerprint \in EmittedFingerprints)
    /\ [][seen_hashes \subseteq seen_hashes']_vars
    /\ [][(pc = "chunk" /\ Decision[1]) => seen_hashes' = seen_hashes]_vars

\* C15: a run with --dedupe has ended with two fingerprints in seen_hashes,
\* a duplicate dropped, and a chunk dropped by a hygiene rule whose
\* fingerprint is not in the set.
C15_Witness ==
    /\ m_done
    /\ args.dedupe
    /\ Cardinality(seen_hashes) >= 2
    /\ \E b \in 1..Len(log) : log[b].outcome = "dedupe_exact"
    /\ \E b \in 1..Len(log) :
          ~PassedHygiene(log[b]) /\ log[b].fingerprint \notin seen_hashes

\* "[section_title] " followed by text
Prefixed(title, text) == <<"[">> \o title \o <<"]", " ">> \o text

\* C16 as stated: with --prepend_title the content of every emitted record
\* is the kept chunk text prefixed with "[section_title] ", for every section
\* title and every chunk text.
C16_TitlePrepended ==
    args.prepend_title =>
        \A k \in 1..Len(fout) :
            fout[k].content = Prefixed(fout[k].section_title, KeptEntries[k].chunk)

\* C16, with the conditions of the code: with --prepend_title the content of
\* an emitted record is "[section_title] " followed by the chunk text (the
\* Arabic-normalized chunk text under --normalize of chunk_ar.py) when the
\* section title is not empty and that text, stripped, does not start with
\* "["; otherwise it is that text without a prefix.
C16_TitlePrependedUnlessBracket ==
    args.prepend_title =>
        \A k \in 1..Len(fout) :
            LET chunk == KeptEntries[k].chunk
                text  == IF script = "chunk_ar" /\ args.normalize
                         THEN normalize_arabic(chunk) ELSE chunk
                title == fout[k].section_title
                bracket == Strip(text) # <<>> /\ Strip(text)[1] = "["
            IN  fout[k].content =
                    IF title # <<>> /\ ~bracket THEN Prefixed(title, text) ELSE text

\* C16: a run with --prepend_title has emitted a record with the title
\* prepended and a record under the same title whose text starts with "[" and
\* got no prefix.
C16_Witness ==
    /\ m_done
    /\ args.prepend_title
    /\ \E j, k \in 1..Len(fout) :
          /\ fout[j].section_title = TitlePlain
          /\ fout[j].content = Prefixed(TitlePlain, KeptEntries[j].chunk)
          /\ fout[k].section_title = TitlePlain
          /\ fout[k].content = KeptEntries[k].chunk
          /\ fout[k].content[1] = "["

\* the next line parses and its language tag is not the one of the script
WrongLanguageNext ==
    /\ CanRead
    /\ NextLine.json
    /\ LowerText(NextLine.language) # GateLanguage(script)

\* C19: a row whose language tag is not "ar" (chunk_fr.py: not "fr") is
\* skipped: reading it increments only the rows-read counter and leaves the
\* kept and dropped counters, the per-reason statistics, the dedup set and the
\* output stream unchanged.
C19_WrongLanguageSkipped ==
    [][WrongLanguageNext =>
          /\ count_rows' = count_rows + 1
          /\ pc' = "read"
          /\ UNCHANGED <<kept, dropped, stats_by_reason, seen_hashes, fout>>]_vars

\* C19: a row of another language has just been read, after a row with an
\* emitted chunk and a dropped chunk, under --dedupe.
C19_Witness ==
    /\ pc = "read"
    /\ line_no = 2
    /\ input[2].json
    /\ LowerText(input[2].language) # GateLanguage(script)
    /\ count_rows = 2
    /\ kept > 0
    /\ dropped > 0
    /\ seen_hashes # {}
    /\ Len(fout) = kept

\* the sum of the per-reason counts
RECURSIVE SumCounts(_)
SumCounts(d) ==
    IF DOMAIN d = {} THEN 0
    ELSE LET r == CHOOSE k \in DOMAIN d : TRUE
         IN  d[r] + SumCounts([k \in (DOMAIN d) \ {r} |-> d[k]])

\* C27: at every point of a run kept + dropped is the number of chunk
\* candidates evaluated so far, the per-reason counts of stats_by_reason sum
\* to dropped, and kept is the number of records written to the output.
C27_CountersAgree ==
    /\ kept + dropped = Len(log)
    /\ SumCounts(stats_by_reason) = dropped
    /\ \A r \in DOMAIN stats_by_reason :
          stats_by_reason[r] = Cardinality({ b \in 1..Len(log) : log[b].outcome = r })
    /\ kept = Len(fout)
    /\ kept = Len(KeptEntries)

\* C27: a finished run that kept a chunk and dropped chunks for two reasons,
\* one of them more than once.
C27_Witness ==
    /\ m_done
    /\ kept > 0
    /\ Cardinality(DOMAIN stats_by_reason) >= 2
    /\ \E r \in DOMAIN stats_by_reason : stats_by_reason[r] >= 2

\* the windows of the raw content of the row being chunked
RawChunks == chunk_text(Strip(input[line_no].content), args.chunk_size, args.overlap)

\* C23: in chunk_ar.py the text that is split into chunks and judged by the
\* hygiene rules is the raw content of the row, with and without --normalize:
\* the chunks of a row are the windows of its raw content.
C23_ChunksOfRawContent ==
    (script = "chunk_ar" /\ pc = "chunk") => chunks = RawChunks

\* without --normalize the chunks are the windows of the raw content
ChunksOfRawContentUnlessNormalize ==
    (pc = "chunk" /\ ~args.normalize) => chunks = RawChunks

\* main as a function of the sequence of input lines: the inner loop over
\* the chunks of one row from chunk k on, st holding the dedup set and the
\* two counters
RECURSIVE FoldChunks(_, _, _, _)
FoldChunks(chs, k, title, st) ==
    IF k > Len(chs) THEN st
    ELSE LET h == DedupeKey(script, chs[k])
         IN  IF MainShouldDrop(script, args, title, chs[k])[1]
                \/ (args.dedupe /\ h \in st.seen)
             THEN FoldChunks(chs, k + 1, title, [st EXCEPT !.dropped = @ + 1])
             ELSE FoldChunks(chs, k + 1, title,
                             [st EXCEPT !.kept = @ + 1,
                                        !.emitted = @ \cup {h},
                                        !.seen = SeenAfterAccept(@, args.dedupe, h)])

\* the outer loop from line k on; an unparsable line ends the run
RECURSIVE FoldLines(_, _, _)
FoldLines(lines, k, st) ==
    IF k > Len(lines) THEN st
    ELSE IF ~lines[k].json THEN [st EXCEPT !.crashed = TRUE]
    ELSE IF \/ LowerText(lines[k].language) # GateLanguage(script)
            \/ Strip(lines[k].content) = <<>>
         THEN FoldLines(lines, k + 1, st)
    ELSE FoldLines(lines, k + 1,
             FoldChunks(chunk_text(TextForChunking(script, args, Strip(lines[k].content)),
                                   args.chunk_size, args.overlap),
                        1, lines[k].section_title, st))

RunOf(lines) ==
    FoldLines(lines, 1, [seen |-> {}, emitted |-> {}, kept |-> 0, dropped |-> 0,
                         crashed |-> FALSE])

\* the orders in which the lines of an input can be given
Reorderings(lines) ==
    { [i \in 1..Len(lines) |-> lines[f[i]]] :
        f \in { g \in [1..Len(lines) -> 1..Len(lines)] :
                  \A i, j \in 1..Len(lines) : g[i] = g[j] => i = j } }

\* a run ends with the dedup set and the counters RunOf gives for its input
RunIsRunOf ==
    ~CanStep =>
        LET r == RunOf(input)
        IN  /\ r.crashed = (pc = "crashed")
            /\ r.seen = seen_hashes
            /\ r.emitted = EmittedFingerprints
            /\ r.kept = kept
            /\ r.dropped = dropped

SameResult(r, q) == r.emitted = q.emitted /\ r.kept = q.kept /\ r.dropped = q.dropped

\* C28: with --dedupe the set of fingerprints of the emitted records, the
\* number of chunks kept and the number dropped of a run are the ones of
\* the run over every permutation of its input rows.
C28_PermutationInvariant ==
    (m_done /\ args.dedupe) =>
        \A lines \in Reorderings(input) :
            LET r == RunOf(lines)
            IN  /\ ~r.crashed
                /\ r.emitted = EmittedFingerprints
                /\ r.kept = kept
                /\ r.dropped = dropped

\* the same of the function of the input, for inputs whose lines all parse
PermutationInvariantParsable ==
    (pc = "start" /\ args.dedupe /\ \A k \in 1..Len(input) : input[k].json) =>
        \A lines \in Reorderings(input) : SameResult(RunOf(lines), RunOf(input))

\* C28: a finished run with --dedupe over two different rows with a chunk in
\* common: the chunk is emitted once and dropped once as a duplicate.
C28_Witness ==
    /\ m_done
    /\ args.dedupe
    /\ Len(input) = 2
    /\ input[1] # input[2]
    /\ kept >= 1
    /\ "dedupe_exact" \in DOMAIN stats_by_reason
    /\ \E a, b \in 1..Len(log) :
          /\ a < b
          /\ log[a].outcome = "kept"
          /\ log[b].outcome = "dedupe_exact"
          /\ log[a].fingerprint = log[b].fingerprint
          /\ log[a].line # log[b].line

-----------------------------------------------------------------------------
(* Arabic normalization applied twice *)

MaxNormLen == 3

\* Letters, precomposed letters, tatweel, marks the functions remove and marks
\* they keep.
NormAlphabet ==
    {"ALEF", "BEH", "e", " ", "TATWEEL", "ALEF_WITH_HAMZA_ABOVE", "ALEF_MAKSURA",
     "TEH_MARBUTA", "FATHA", "HAMZA_ABOVE", "HAMZA_BELOW", "SUPERSCRIPT_ALEF",
     "CURLY_FATHA", "CURLY_KASRA", "COMBINING_ACUTE_ACCENT"}

NormInputs == UNION { [1..n -> NormAlphabet] : n \in 0..MaxNormLen }

NormalizeInit ==
    /\ nz_fn \in {"chunk_ar", "hygiene"}
    /\ nz_x \in NormInputs
    /\ nz_once = <<>>
    /\ nz_twice = <<>>
    /\ nz_pc = "call"
    /\ ChunkIdle
    /\ HygieneIdle
    /\ MainIdle
    /\ SectionsIdle
    /\ CleanIdle
    /\ UpsertIdle
    /\ MergeIdle
    /\ BuildIdle
    /\ UploadIdle
    /\ MirrorIdle
    /\ PagesIdle

\* normalize_arabic_basic of hygiene.py is to be called: loading the file
\* raises at line 18, before the def statement of line 22
NormalizeUnloaded ==
    /\ nz_pc = "call"
    /\ nz_fn = "hygiene"
    /\ nz_once' = LETTER_RE
    /\ nz_pc' = "raised"
    /\ UNCHANGED <<nz_fn, nz_x, nz_twice>>
    /\ UNCHANGED nz_others

\* y = normalize_arabic(x)
NormalizeOnce ==
    /\ nz_pc = "call"
    /\ nz_fn = "chunk_ar"
    /\ nz_once' = normalize_arabic(nz_x)
    /\ nz_pc' = "once"
    /\ UNCHANGED <<nz_fn, nz_x, nz_twice>>
    /\ UNCHANGED nz_others

\* z = normalize_arabic(y)
NormalizeTwice ==
    /\ nz_pc = "once"
    /\ nz_twice' = normalize_arabic(nz_once)
    /\ nz_pc' = "twice"
    /\ UNCHANGED <<nz_fn, nz_x, nz_once>>
    /\ UNCHANGED nz_others

NormalizeNext == NormalizeUnloaded \/ NormalizeOnce \/ NormalizeTwice

SpecNormalize == NormalizeInit /\ [][NormalizeNext]_vars

\* C14: Arabic normalization is idempotent, normalize(normalize(x)) =
\* normalize(x) for every text x, for normalize_arabic of chunk_ar.py and
\* normalize_arabic_basic of hygiene.py.
C14_NormalizeIdempotent ==
    nz_pc = "twice" => nz_twice = nz_once

-----------------------------------------------------------------------------
(* txt_to_sections_en_fr.py: find_section_starts and slice_sections.  A     *)
(* document is its sequence of lines and whether the last one ends with a   *)
(* line feed.  No line has white space at either end, so that a blank line  *)
(* is an empty line.  A line is a chapter heading, a blank line, the name   *)
(* of one of two known blocks, a part heading of at most 120 characters, a  *)
(* part heading of more than 120 characters ("Part" and a long number), the *)
(* part word alone ("Part", "Partie"), an ordinal of the part pattern alone *)
(* ("II", "12"; in an Arabic text, where the pattern has no ordinals, a     *)
(* number), of at most or of more than 120 characters, or any other line of *)
(* text, of at most or of more than 120 characters.  Positions are line     *)
(* numbers and texts are sequences of line numbers.                         *)

MaxLines == 5

\* a wrapped title has at most this many lines
MaxTitleLines == 3

LineKinds == {"chapter", "blank", "block_a", "block_b", "part", "long_part", "part_word",
              "ordinal", "long_ordinal", "text", "long"}

\* len(cur) > 120 for the stripped line cur: a long line of text, a long part
\* heading, a long number and, in the comparison of the two chapter
\* detections, a long chapter heading spelled with a tatweel
LongerThan120(line) == line \in {"long", "long_part", "long_ordinal", "long_chapter_tatweel"}

\* the part pattern of the language of the document matches the line alone
IsPartLine(line) == line \in {"part", "long_part"}

\* the line is the part word of the pattern: the \s+ that follows it in the
\* pattern matches the line end and the blank lines after it
IsPartWord(line) == line = "part_word"

\* the line can end a match of the part pattern begun by the part word on a
\* line before it: for "en" and "fr" it is an ordinal and nothing else, for
\* "ar", whose pattern goes on with .+$, any line that is not empty
CompletesPart(lang, line) ==
    IF lang = "ar" THEN line # "blank" ELSE line \in {"ordinal", "long_ordinal"}

Documents == UNION { [1..n -> LineKinds] : n \in 0..MaxLines }

\* the last line of a text may lack its line feed unless it is empty: a text
\* that ends with an empty line ends with the line feed of that line
MayLackLineFeed(lines) == lines # <<>> /\ lines[Len(lines)] # "blank"

\* the languages of PART_RE_LNG
SectionLangs == {"ar", "en", "fr"}

\* the inner while loop going on past a blank line met after a title line
RECURSIVE TitleScan_PastBlank(_, _, _)
TitleScan_PastBlank(lines, i, title_lines) ==
    IF i > Len(lines) THEN [i |-> i, title_lines |-> title_lines]
    ELSE IF lines[i] = "blank" THEN TitleScan_PastBlank(lines, i + 1, title_lines)
    ELSE IF lines[i] = "chapter" THEN [i |-> i, title_lines |-> title_lines]
    ELSE IF LongerThan120(lines[i]) /\ title_lines # <<>>
         THEN [i |-> i, title_lines |-> title_lines]
    ELSE LET more == Append(title_lines, i)
         IN  IF Len(more) >= MaxTitleLines
             THEN [i |-> i + 1, title_lines |-> more]
             ELSE TitleScan_PastBlank(lines, i + 1, more)

\* the inner while loop: collect the lines of the title from line i on
RECURSIVE TitleScan(_, _, _)
TitleScan(lines, i, title_lines) ==
    IF i > Len(lines) THEN [i |-> i, title_lines |-> title_lines]
    ELSE IF lines[i] = "blank"
         THEN IF title_lines # <<>>
              THEN [i |-> i + 1, title_lines |-> title_lines]
              ELSE TitleScan(lines, i + 1, title_lines)
    ELSE IF lines[i] = "chapter" THEN [i |-> i, title_lines |-> title_lines]
    ELSE IF LongerThan120(lines[i]) /\ title_lines # <<>>
         THEN [i |-> i, title_lines |-> title_lines]
    ELSE LET more == Append(title_lines, i)
         IN  IF Len(more) >= MaxTitleLines
             THEN [i |-> i + 1, title_lines |-> more]
             ELSE TitleScan(lines, i + 1, more)

\* the outer while loop: one marker per chapter heading from line i on
RECURSIVE ChapterMarkers(_, _)
ChapterMarkers(lines, i) ==
    IF i > Len(lines) THEN <<>>
    ELSE IF lines[i] # "chapter" THEN ChapterMarkers(lines, i + 1)
    ELSE LET scan == TitleScan(lines, i + 1, <<>>)
             title_lines == scan.title_lines
         IN  <<[pos |-> i, kind |-> "chapter", heading |-> i,
                title |-> IF title_lines # <<>> THEN title_lines ELSE <<i>>,
                title_lines |-> title_lines,
                skip_lines |-> 1 + Len(title_lines), cut |-> 0]>>
             \o ChapterMarkers(lines, scan.i)

\* m.start() of the match of the pattern of a known block on line i.  The
\* pattern begins with ^\s*, and \s matches line ends: the match starts at the
\* first line of the run of blank lines before line i.  The pattern ends with
\* \s*$ and takes the blank lines after its line but the last, so that the
\* match starts at that last one when the line before the run matched the same
\* pattern.
MatchStart(lines, i) ==
    LET j == CHOOSE j \in 1..i : /\ \A k \in j..(i - 1) : lines[k] = "blank"
                                 /\ (j = 1 \/ lines[j - 1] # "blank")
    IN  IF j < i /\ j > 1 /\ lines[j - 1] = lines[i] THEN i - 1 ELSE j

\* the markers of one known block, in the order of finditer
BlockMarkers(lines, kb) ==
    LET at == SelectSeq([i \in 1..Len(lines) |-> i], LAMBDA i : lines[i] = kb)
    IN  [n \in 1..Len(at) |->
            [pos |-> MatchStart(lines, at[n]), kind |-> "block", heading |-> at[n],
             title |-> <<at[n]>>, title_lines |-> <<>>, skip_lines |-> 1, cut |-> 0]]

\* PART_RE_LNG: the patterns of "en" and "fr" end with \s*$, that of "ar"
\* ends with .+$
PartTakesBlankAfter(lang) == lang # "ar"

\* the first line from line i on that is not blank, Len(lines) + 1 without one
NextNonBlank(lines, i) ==
    IF \E k \in i..Len(lines) : lines[k] # "blank"
    THEN CHOOSE k \in i..Len(lines) : /\ lines[k] # "blank"
                                       /\ \A j \in i..(k - 1) : lines[j] = "blank"
    ELSE Len(lines) + 1

\* the line on which the match of the part pattern ends whose part word is
\* on line b, 0 when the pattern does not match from there: a part heading
\* matches on its line; after the part word alone the \s+ of the pattern
\* takes the line end and the blank lines that follow, and the next line has
\* to complete the match
PartEnd(lines, lang, b) ==
    IF IsPartLine(lines[b]) THEN b
    ELSE IF IsPartWord(lines[b])
         THEN LET c == NextNonBlank(lines, b + 1)
              IN  IF c <= Len(lines) /\ CompletesPart(lang, lines[c]) THEN c ELSE 0
    ELSE 0

\* PART_RE.finditer(text) from the start of line s on: the leftmost match
\* starts at line s or at the first line of the run of blank lines before
\* its part word (^\s*), and the search goes on where the match ended.  A
\* pattern that ends with \s*$ takes the blank lines after the match but the
\* last, or all of them at the end of the text.  The heading is read from
\* m.start() to the next line feed, text.find("\n", m.start()): the blank
\* line at m.start() when blank lines precede the part word, and the line
\* without its last character when no line feed follows (find returns -1).
RECURSIVE PartScan(_, _, _, _)
PartScan(lines, eol, lang, s) ==
    LET begins == { b \in s..Len(lines) : PartEnd(lines, lang, b) # 0 }
    IN  IF begins = {} THEN <<>>
        ELSE LET b == CHOOSE x \in begins : \A y \in begins : x <= y
                 run == CHOOSE j \in 1..b : /\ \A k \in j..(b - 1) : lines[k] = "blank"
                                            /\ (j = 1 \/ lines[j - 1] # "blank")
                 pos == Max(s, run)
                 end == PartEnd(lines, lang, b)
                 last_blank == NextNonBlank(lines, end + 1) - 1
                 next == IF ~PartTakesBlankAfter(lang) THEN end + 1
                         ELSE IF last_blank = Len(lines) THEN Len(lines) + 1
                         ELSE IF last_blank > end THEN last_blank
                         ELSE end + 1
             IN  <<[pos |-> pos, kind |-> "part", heading |-> pos,
                    title |-> IF pos = b THEN <<pos>> ELSE <<>>,
                    title_lines |-> <<>>, skip_lines |-> 1,
                    cut |-> IF ~eol /\ pos = Len(lines) THEN 1 ELSE 0]>>
                 \o PartScan(lines, eol, lang, next)

\* the markers of the part headings
PartMarkers(lines, eol, lang) == PartScan(lines, eol, lang, 1)

\* markers.sort(key=pos): a stable sort
RECURSIVE SortByPos(_)
SortByPos(ms) ==
    IF ms = <<>> THEN <<>>
    ELSE LET n == CHOOSE k \in 1..Len(ms) :
                      /\ \A j \in 1..Len(ms) : ms[k].pos <= ms[j].pos
                      /\ \A j \in 1..(k - 1) : ms[j].pos # ms[k].pos
         IN  <<ms[n]>> \o SortByPos(SubSeq(ms, 1, n - 1) \o SubSeq(ms, n + 1, Len(ms)))

\* the last marker of each position instead of the first
DedupByPos_KeepLast(ms) ==
    SelectSeq([k \in 1..Len(ms) |->
                  IF \E j \in (k + 1)..Len(ms) : ms[j].pos = ms[k].pos
                  THEN [ms[k] EXCEPT !.kind = "duplicate"] ELSE ms[k]],
              LAMBDA m : m.kind # "duplicate")

\* the first marker of each position
DedupByPos(ms) ==
    SelectSeq([k \in 1..Len(ms) |->
                  IF \E j \in 1..(k - 1) : ms[j].pos = ms[k].pos
                  THEN [ms[k] EXCEPT !.kind = "duplicate"] ELSE ms[k]],
              LAMBDA m : m.kind # "duplicate")

find_section_starts(lines, eol, lang) ==
    DedupByPos(SortByPos(BlockMarkers(lines, "block_a") \o BlockMarkers(lines, "block_b")
                         \o PartMarkers(lines, eol, lang) \o ChapterMarkers(lines, 1)))

\* str.strip() of the joined lines: blank lines at both ends go
StripBlank(lines, at) ==
    SelectSeq(at, LAMBDA i :
        /\ \E j \in 1..Len(at) : at[j] <= i /\ lines[at[j]] # "blank"
        /\ \E j \in 1..Len(at) : at[j] >= i /\ lines[at[j]] # "blank")

\* the section of the k-th marker
SectionOf(lines, markers, k) ==
    LET m == markers[k]
        end == IF k + 1 <= Len(markers) THEN markers[k + 1].pos ELSE Len(lines) + 1
        chunk_lines == [i \in 1..(end - m.pos) |-> m.pos + i - 1]
        skip == Min(m.skip_lines, Len(chunk_lines))
        body_lines == SubSeq(chunk_lines, skip + 1, Len(chunk_lines))
    IN  [kind |-> m.kind, heading |-> m.heading, title |-> m.title, cut |-> m.cut,
         title_lines |-> m.title_lines, body |-> StripBlank(lines, body_lines)]

SectionsInit ==
    /\ sc_lines \in Documents
    /\ sc_eol \in BOOLEAN
    /\ (sc_eol \/ MayLackLineFeed(sc_lines))
    /\ sc_lang \in SectionLangs
    /\ sc_markers = <<>>
    /\ sc_k = 0
    /\ sc_sections = <<>>
    /\ sc_pc = "find"
    /\ ChunkIdle
    /\ HygieneIdle
    /\ MainIdle
    /\ NormalizeIdle
    /\ CleanIdle
    /\ UpsertIdle
    /\ MergeIdle
    /\ BuildIdle
    /\ UploadIdle
    /\ MirrorIdle
    /\ PagesIdle

\* markers = find_section_starts(text, lang)
FindStarts ==
    /\ sc_pc = "find"
    /\ sc_markers' = find_section_starts(sc_lines, sc_eol, sc_lang)
    /\ sc_pc' = "slice"
    /\ UNCHANGED <<sc_lines, sc_eol, sc_lang, sc_k, sc_sections>>
    /\ UNCHANGED sc_others

\* no marker: the whole text is one section
FullDocument ==
    /\ sc_pc = "slice"
    /\ sc_markers = <<>>
    /\ sc_sections' = <<[kind |-> "full", heading |-> 0, title |-> <<>>, cut |-> 0,
                         title_lines |-> <<>>,
                         body |-> [i \in 1..Len(sc_lines) |-> i]]>>
    /\ sc_pc' = "done"
    /\ UNCHANGED <<sc_lines, sc_eol, sc_lang, sc_markers, sc_k>>
    /\ UNCHANGED sc_others

\* one turn of the loop over the markers
SliceSection ==
    /\ sc_pc = "slice"
    /\ sc_k < Len(sc_markers)
    /\ sc_sections' = Append(sc_sections, SectionOf(sc_lines, sc_markers, sc_k + 1))
    /\ sc_k' = sc_k + 1
    /\ UNCHANGED <<sc_lines, sc_eol, sc_lang, sc_markers, sc_pc>>
    /\ UNCHANGED sc_others

\* return sections
SectionsReturn ==
    /\ sc_pc = "slice"
    /\ sc_markers # <<>>
    /\ sc_k = Len(sc_markers)
    /\ sc_pc' = "done"
    /\ UNCHANGED <<sc_lines, sc_eol, sc_lang, sc_markers, sc_k, sc_sections>>
    /\ UNCHANGED sc_others

SectionsNext == FindStarts \/ FullDocument \/ SliceSection \/ SectionsReturn

SpecSections == SectionsInit /\ [][SectionsNext]_vars

\* on a text whose lines end with LF the markers found are at distinct
\* positions, the list returned is strictly increasing in position, and the
\* sections are appended in the order of the markers
SectionsInMarkerOrder ==
    sc_pc # "find" =>
        /\ \A j, k \in 1..Len(sc_markers) : j < k => sc_markers[j].pos < sc_markers[k].pos
        /\ Len(sc_markers) = Len(BlockMarkers(sc_lines, "block_a"))
                             + Len(BlockMarkers(sc_lines, "block_b"))
                             + Len(PartMarkers(sc_lines, sc_eol, sc_lang))
                             + Len(ChapterMarkers(sc_lines, 1))
        /\ sc_markers # <<>> =>
              /\ Len(sc_sections) = sc_k
              /\ \A k \in 1..sc_k : sc_sections[k] = SectionOf(sc_lines, sc_markers, k)

\* the lines of a sequence of line numbers
InBody(sec, i) == \E j \in 1..Len(sec.body) : sec.body[j] = i

\* C17: the body of every section of a chapter marker starts after the
\* heading line and the lines stitched into the title: neither the heading
\* line nor a title line is in the body, however blank lines are arranged
\* between the heading and the title lines.
C17_BodyAfterTitle ==
    \A k \in 1..Len(sc_sections) :
        LET sec == sc_sections[k]
        IN  sec.kind = "chapter" =>
                /\ ~InBody(sec, sec.heading)
                /\ \A j \in 1..Len(sec.title_lines) : ~InBody(sec, sec.title_lines[j])

\* without a blank line between the heading and the title the body holds
\* neither of them
BodyAfterAdjacentTitle ==
    \A k \in 1..Len(sc_sections) :
        LET sec == sc_sections[k]
        IN  (/\ sec.kind = "chapter"
             /\ \A j \in 1..Len(sec.title_lines) : sec.title_lines[j] = sec.heading + j)
            => /\ ~InBody(sec, sec.heading)
               /\ \A j \in 1..Len(sec.title_lines) : ~InBody(sec, sec.title_lines[j])

-----------------------------------------------------------------------------
(* extract_chapters.py: extract_chapters, whose loop find_section_starts    *)
(* repeats.  Its CHAP_RE is the Arabic pattern without the ordinal spelled  *)
(* with a tatweel; every other line that is not blank is a line of text to  *)
(* it, long or not.                                                         *)

\* CHAP_RE of extract_chapters.py
CHAP_RE_extract(line) == line = "chapter"

\* extract_chapters: the inner while loop
RECURSIVE extract_title_lines(_, _, _)
extract_title_lines(lines, i, title_lines) ==
    IF i > Len(lines) THEN [i |-> i, title_lines |-> title_lines]
    ELSE IF lines[i] = "blank"
         THEN IF title_lines # <<>>
              THEN [i |-> i + 1, title_lines |-> title_lines]
              ELSE extract_title_lines(lines, i + 1, title_lines)
    ELSE IF CHAP_RE_extract(lines[i]) THEN [i |-> i, title_lines |-> title_lines]
    ELSE IF LongerThan120(lines[i]) /\ title_lines # <<>>
         THEN [i |-> i, title_lines |-> title_lines]
    ELSE LET more == Append(title_lines, i)
         IN  IF Len(more) >= 3
             THEN [i |-> i + 1, title_lines |-> more]
             ELSE extract_title_lines(lines, i + 1, more)

\* extract_chapters: the outer while loop, from line i on
RECURSIVE extract_chapters(_, _)
extract_chapters(lines, i) ==
    IF i > Len(lines) THEN <<>>
    ELSE IF ~CHAP_RE_extract(lines[i]) THEN extract_chapters(lines, i + 1)
    ELSE LET scan == extract_title_lines(lines, i + 1, <<>>)
         IN  <<[chapter_heading |-> i,
                chapter_title |-> IF scan.title_lines # <<>> THEN scan.title_lines
                                  ELSE "None"]>>
             \o extract_chapters(lines, scan.i)

\* the lines extract_chapters stitched into the title of a chapter
TitleLinesOf(chapter) ==
    IF chapter.chapter_title = "None" THEN <<>> ELSE chapter.chapter_title

\* the markers of the chapter headings
ChapterMarkersFound == SelectSeq(sc_markers, LAMBDA m : m.kind = "chapter")

\* the lines tl collected for the title of the heading on line pos are as
\* the specification has them: at most 3, all after the heading, none blank
\* or a chapter heading, every one after the first of at most 120
\* characters and next to the one before it, so that no blank line lies
\* between them, and only blank lines between the heading and the first
TitleLinesAsSpecified(lines, pos, tl) ==
    /\ Len(tl) <= MaxTitleLines
    /\ \A j \in 1..Len(tl) :
          /\ tl[j] \in (pos + 1)..Len(lines)
          /\ lines[tl[j]] \notin {"blank", "chapter"}
          /\ j > 1 => /\ ~LongerThan120(lines[tl[j]])
                      /\ tl[j] = tl[j - 1] + 1
    /\ tl # <<>> => \A i \in (pos + 1)..(tl[1] - 1) : lines[i] = "blank"

\* the collection took every line it may take: the line after the last title
\* line, when fewer than 3 were collected, is missing, blank, a chapter
\* heading or longer than 120 characters, and a heading without title lines
\* is followed by blank lines up to the end of the text or the next chapter
\* heading
TitleLinesComplete(lines, pos, tl) ==
    LET nxt == IF tl = <<>> THEN pos + 1 ELSE tl[Len(tl)] + 1
    IN  /\ (tl # <<>> /\ Len(tl) < MaxTitleLines /\ nxt <= Len(lines))
            => (lines[nxt] \in {"blank", "chapter"} \/ LongerThan120(lines[nxt]))
        /\ tl = <<>> =>
              \A i \in nxt..Len(lines) :
                  (\A j \in nxt..(i - 1) : lines[j] = "blank")
                      => lines[i] \in {"blank", "chapter"}

\* the chapters extract_chapters reports for the text, an Arabic one
ChaptersExtracted == IF sc_lang = "ar" THEN extract_chapters(sc_lines, 1) ELSE <<>>

\* C21: for every chapter heading found by find_section_starts the title is
\* stitched from at most 3 lines that follow the heading, none of them blank
\* or a chapter heading, every one after the first of at most 120
\* characters, and no blank line lies between the first and the last of
\* them: the collection stops at the first blank line met after a title
\* line.  Only blank lines separate the heading from the first title line,
\* and the title is the heading where no line was collected.  The loop of
\* extract_chapters collects the same lines for the same headings of an
\* Arabic text.
C21_TitleLines ==
    sc_pc # "find" =>
        /\ \A i \in 1..Len(sc_lines) :
              sc_lines[i] = "chapter" <=>
                  \E k \in 1..Len(ChapterMarkersFound) : ChapterMarkersFound[k].pos = i
        /\ \A k \in 1..Len(ChapterMarkersFound) :
              LET m == ChapterMarkersFound[k]
              IN  /\ TitleLinesAsSpecified(sc_lines, m.pos, m.title_lines)
                  /\ m.title = IF m.title_lines # <<>> THEN m.title_lines ELSE <<m.pos>>
                  /\ m.skip_lines = 1 + Len(m.title_lines)
        /\ sc_lang = "ar" =>
              /\ \A i \in 1..Len(sc_lines) :
                    sc_lines[i] = "chapter" <=>
                        \E k \in 1..Len(ChaptersExtracted) :
                            ChaptersExtracted[k].chapter_heading = i
              /\ \A k \in 1..Len(ChaptersExtracted) :
                    TitleLinesAsSpecified(sc_lines, ChaptersExtracted[k].chapter_heading,
                                          TitleLinesOf(ChaptersExtracted[k]))

\* both loops take every line they may take
TitleLinesMaximal ==
    sc_pc # "find" =>
        /\ \A k \in 1..Len(ChapterMarkersFound) :
              TitleLinesComplete(sc_lines, ChapterMarkersFound[k].pos,
                                 ChapterMarkersFound[k].title_lines)
        /\ \A k \in 1..Len(ChaptersExtracted) :
              TitleLinesComplete(sc_lines, ChaptersExtracted[k].chapter_heading,
                                 TitleLinesOf(ChaptersExtracted[k]))

\* C21: an Arabic text with a chapter heading followed by a line of more
\* than 120 characters and a line of text, both stitched into the title by
\* find_section_starts and by extract_chapters, then a part heading of more
\* than 120 characters, which ends the collection and is left to the body.
C21_Witness ==
    /\ sc_pc = "done"
    /\ sc_lang = "ar"
    /\ \E k \in 1..Len(ChapterMarkersFound) :
          LET m == ChapterMarkersFound[k]
              tl == m.title_lines
          IN  /\ Len(tl) = 2
              /\ sc_lines[tl[1]] = "long"
              /\ sc_lines[tl[2]] = "text"
              /\ tl[2] + 1 <= Len(sc_lines)
              /\ sc_lines[tl[2] + 1] = "long_part"
              /\ \E c \in 1..Len(ChaptersExtracted) :
                    /\ ChaptersExtracted[c].chapter_heading = m.pos
                    /\ ChaptersExtracted[c].chapter_title = tl

-----------------------------------------------------------------------------
(* find_section_starts, lines 237-245: the markers found are sorted by      *)
(* position and the first marker of each position is kept; slice_sections   *)
(* then appends one section per marker.  The positions of the block and     *)
(* part markers are offsets of regular expression matches in the text, the  *)
(* position of a chapter marker is summed from the lengths of the lines     *)
(* before it, one character counted for each line end.  On a text whose     *)
(* lines end with the two characters CR LF the sum falls short, and a       *)
(* chapter marker can get the position of a block or part marker.  Here a   *)
(* marker is its position, its kind and the line of its heading.            *)

MaxFound == 3

MaxPos == 3

MarkerKinds == <<"block", "part", "chapter">>

KindRank(kind) == CHOOSE r \in 1..Len(MarkerKinds) : MarkerKinds[r] = kind

FoundMarkers ==
    [pos : 1..MaxPos, kind : {"block", "part", "chapter"}, heading : 1..MaxFound]

\* marker m can be appended after the markers of f
CanFollow(f, m) ==
    \A j \in 1..Len(f) :
        /\ KindRank(f[j].kind) <= KindRank(m.kind)
        /\ f[j].heading # m.heading
        /\ (m.kind # "chapter") => f[j].pos # m.pos
        /\ (f[j].kind = m.kind /\ m.kind # "block")
               => /\ f[j].pos < m.pos
                  /\ f[j].heading < m.heading

RECURSIVE FoundListsOfLen(_)

FoundListsOfLen(n) ==
    IF n = 0 THEN { <<>> }
    ELSE UNION { { Append(f, m) : m \in { x \in FoundMarkers : CanFollow(f, x) } } :
                 f \in FoundListsOfLen(n - 1) }

\* the lists the three detection passes can append: blocks, then parts, then
\* chapters, each heading line once, the matches of the regular expressions
\* at distinct positions, the chapters at increasing positions
FoundLists == UNION { FoundListsOfLen(n) : n \in 0..MaxFound }

MergeInit ==
    /\ mg_found \in FoundLists
    /\ mg_markers = <<>>
    /\ mg_k = 0
    /\ mg_sections = <<>>
    /\ mg_pc = "found"
    /\ ChunkIdle
    /\ HygieneIdle
    /\ MainIdle
    /\ NormalizeIdle
    /\ SectionsIdle
    /\ CleanIdle
    /\ UpsertIdle
    /\ BuildIdle
    /\ UploadIdle
    /\ MirrorIdle
    /\ PagesIdle

\* markers.sort(key=pos), the dedup loop, return dedup
MergeMarkers ==
    /\ mg_pc = "found"
    /\ mg_markers' = DedupByPos(SortByPos(mg_found))
    /\ mg_pc' = "slice"
    /\ UNCHANGED <<mg_found, mg_k, mg_sections>>
    /\ UNCHANGED mg_others

\* slice_sections: no marker, the whole text is one section
MergeFullDocument ==
    /\ mg_pc = "slice"
    /\ mg_markers = <<>>
    /\ mg_sections' = <<[pos |-> 0, kind |-> "full", heading |-> 0]>>
    /\ mg_pc' = "returned"
    /\ UNCHANGED <<mg_found, mg_markers, mg_k>>
    /\ UNCHANGED mg_others

\* slice_sections: for i, m in enumerate(markers), one section appended
MergeSlice ==
    /\ mg_pc = "slice"
    /\ mg_k < Len(mg_markers)
    /\ mg_sections' = Append(mg_sections, mg_markers[mg_k + 1])
    /\ mg_k' = mg_k + 1
    /\ UNCHANGED <<mg_found, mg_markers, mg_pc>>
    /\ UNCHANGED mg_others

\* slice_sections: return sections
MergeReturn ==
    /\ mg_pc = "slice"
    /\ mg_markers # <<>>
    /\ mg_k = Len(mg_markers)
    /\ mg_pc' = "returned"
    /\ UNCHANGED <<mg_found, mg_markers, mg_k, mg_sections>>
    /\ UNCHANGED mg_others

MergeNext == MergeMarkers \/ MergeFullDocument \/ MergeSlice \/ MergeReturn

SpecMerge == MergeInit /\ [][MergeNext]_vars

\* the place in the detection order of the first marker found at position p
FirstFoundAt(p) == CHOOSE j \in 1..Len(mg_found) :
                       /\ mg_found[j].pos = p
                       /\ \A i \in 1..(j - 1) : mg_found[i].pos # p

\* C22: the markers find_section_starts returns are strictly increasing in
\* position; every position at which a marker was found has one marker, the
\* first found there in the detection order (blocks, then parts, then
\* chapters); and slice_sections appends the sections in that order.
C22_MarkersByPosition ==
    mg_pc # "found" =>
        /\ \A j, k \in 1..Len(mg_markers) : j < k => mg_markers[j].pos < mg_markers[k].pos
        /\ { mg_markers[k].pos : k \in 1..Len(mg_markers) }
               = { mg_found[j].pos : j \in 1..Len(mg_found) }
        /\ \A k \in 1..Len(mg_markers) :
              mg_markers[k] = mg_found[FirstFoundAt(mg_markers[k].pos)]
        /\ mg_markers # <<>> => mg_sections = SubSeq(mg_markers, 1, mg_k)
        /\ (mg_pc = "returned" /\ mg_markers # <<>>) => mg_sections = mg_markers

\* C22: a part marker found before two chapter markers, the first chapter
\* at a smaller position and the second at the position of the part: the
\* list returned holds the first chapter and then the part, and both
\* sections are appended.
C22_Witness ==
    /\ mg_pc = "returned"
    /\ Len(mg_found) = 3
    /\ mg_found[1].kind = "part"
    /\ mg_found[2].kind = "chapter"
    /\ mg_found[2].pos < mg_found[1].pos
    /\ mg_found[3].pos = mg_found[1].pos
    /\ mg_markers = <<mg_found[2], mg_found[1]>>
    /\ Len(mg_sections) = 2

-----------------------------------------------------------------------------
(* clean_chunks.py: main reads the rows of a JSONL file and writes each to  *)
(* the kept file or to the discarded file.  A line of the input is a JSON   *)
(* text: its value is the row, its form tells whether the text is the one   *)
(* json.dumps(row, ensure_ascii=False) produces.                            *)

MaxCleanRows == 3

KnownLanguages == { <<"e", "n">>, <<"f", "r">>, <<"a", "r">> }

MIN_LEN(lang) == IF lang = <<"a", "r">> THEN 60 ELSE 50

MAX_PUNCT_RATIO == 60

MAX_DIGIT_RATIO == 35

BAD_TITLES(lang) ==
    IF lang = <<"e", "n">> THEN
        { <<"c", "o", "v", "e", "r">>,
          <<"t", "a", "b", "l", "e", " ", "o", "f", " ", "c", "o", "n", "t", "e", "n", "t", "s">>,
          <<"c", "o", "n", "t", "e", "n", "t", "s">>,
          <<"t", "o", "c">>,
          <<"i", "n", "d", "e", "x">>,
          <<"a", "b", "o", "u", "t", " ", "t", "h", "i", "s", " ", "t", "e", "x", "t">>,
          <<"a", "c", "k", "n", "o", "w", "l", "e", "d", "g">>,
          <<"p", "r", "e", "f", "a", "c", "e">>,
          <<"b", "i", "b", "l", "i", "o", "g", "r", "a", "p", "h">>,
          <<"c", "o", "p", "y", "r", "i", "g", "h", "t">>,
          <<"l", "i", "c", "e", "n", "s", "e">> }
    ELSE IF lang = <<"f", "r">> THEN
        { <<"c", "o", "u", "v", "e", "r", "t", "u", "r", "e">>,
          <<"t", "a", "b", "l", "e", " ", "d", "e", "s", " ", "m", "a", "t", "i", "SMALL_LETTER_E_WITH_GRAVE", "r", "e", "s">>,
          <<"s", "o", "m", "m", "a", "i", "r", "e">>,
          <<"c", "o", "n", "t", "e", "n", "u">>,
          <<"i", "n", "d", "e", "x">>,
          <<"SMALL_LETTER_A_WITH_GRAVE", " ", "p", "r", "o", "p", "o", "s">>,
          <<"r", "e", "m", "e", "r", "c", "i", "e", "m", "e", "n", "t", "s">>,
          <<"p", "r", "SMALL_LETTER_E_WITH_ACUTE", "f", "a", "c", "e">>,
          <<"b", "i", "b", "l", "i", "o", "g", "r", "a", "p", "h">>,
          <<"d", "r", "o", "i", "t", "s">>,
          <<"l", "i", "c", "e", "n", "c", "e">> }
    ELSE IF lang = <<"a", "r">> THEN
        { <<"ALEF", "LAM", "FEH", "HEH", "REH", "SEEN">>,
          <<"ALEF", "LAM", "MEEM", "HAH", "TEH", "WAW", "YEH", "ALEF", "TEH">>,
          <<"FEH", "HEH", "REH", "SEEN">>,
          <<"SHEEN", "KAF", "REH">>,
          <<"SHEEN", "KAF", "REH", " ", "WAW", "TEH", "QAF", "DAL", "YEH", "REH">>,
          <<"ALEF", "LAM", "KHAH", "ALEF", "TEH", "MEEM", "TEH_MARBUTA">>,
          <<"ALEF", "LAM", "MEEM", "REH", "ALEF", "JEEM", "AIN">>,
          <<"HAH", "QAF", "WAW", "QAF">>,
          <<"TEH", "REH", "KHAH", "YEH", "SAD">> }
    ELSE {}

\* infer_language(pack_id, chunk_id)
infer_language(p, c) ==
    LET pl == LowerText(p)
        cl == LowerText(c)
        french == <<"f", "r", "e", "n", "c", "h", "_", "p", "a", "c", "k", "_">>
        english == <<"e", "n", "g", "l", "i", "s", "h", "_", "p", "a", "c", "k", "_">>
    IN  IF \/ StartsWith(c, <<"A", "R", "-">>) \/ StartsWith(c, <<"A", "R", "_">>)
           \/ StartsWith(p, <<"A", "R", "-">>) \/ StartsWith(p, <<"A", "R", "_">>)
        THEN <<"a", "r">>
        ELSE IF StartsWith(cl, french) \/ StartsWith(pl, french) THEN <<"f", "r">>
        ELSE IF StartsWith(cl, english) \/ StartsWith(pl, english) THEN <<"e", "n">>
        ELSE <<"u", "n", "k", "n", "o", "w", "n">>

\* characters that are neither alphanumeric nor white space
CountPunct(txt) ==
    Cardinality({ i \in 1..Len(txt) :
                    ~IsAlpha(txt[i]) /\ ~IsDigit(txt[i]) /\ ~IsSpace(txt[i]) })

\* ratios(txt): <<punct / total, digits / total>> as fractions
ratios(txt) ==
    IF txt = <<>> THEN << <<1, 1>>, <<1, 1>> >>
    ELSE << <<CountPunct(txt), Len(txt)>>, <<CountDigits(txt), Len(txt)>> >>

looks_like_movie_subtitle_ar(text) ==
    IF text = <<>> THEN FALSE
    ELSE LET t == Strip(text)
         IN  \/ Search(t, { ArTehYeh \o <<" ", "ARABIC_INDIC_DIGIT_TWO">>, ArTerminator })
             \/ RatioGt(ratios(t)[2], 30) /\ Len(t) < 120

is_bad_title(title, lang) == Search(Strip(LowerText(title)), BAD_TITLES(lang))

\* a line of the input file and the two conversions of the json module
JsonLine(form, row) == [kind |-> "json", form |-> form, value |-> row]

json_loads(line) == line.value

json_dumps(row) == JsonLine("dumps", row)

CleanRow(cid, pack, lang, title, content) ==
    [chunk_id |-> cid, pack_id |-> pack, language |-> lang,
     section_title |-> title, content |-> content]

BlankLine == [kind |-> "blank", form |-> "other", value |-> CleanRow(<<>>, <<>>, <<>>, <<>>, <<>>)]

BadLine == [kind |-> "bad", form |-> "other", value |-> CleanRow(<<>>, <<>>, <<>>, <<>>, <<>>)]

\* the language main works with: the lowered tag, else the inferred one
RowLanguage(row) ==
    LET lang == LowerText(row.language)
    IN  IF lang \in KnownLanguages THEN lang
        ELSE infer_language(row.pack_id, row.chunk_id)

\* what main decides for a row: the first test that discards it, or "keep"
CleanVerdict(row, seen) ==
    LET lang == RowLanguage(row)
        text == row.content
        r == ratios(text)
    IN  IF lang \notin KnownLanguages THEN "unknown_language"
        ELSE IF Len(Strip(text)) < MIN_LEN(lang) THEN "min_length"
        ELSE IF is_bad_title(row.section_title, lang) THEN "bad_title"
        ELSE IF RatioGt(r[1], MAX_PUNCT_RATIO) \/ RatioGt(r[2], MAX_DIGIT_RATIO)
             THEN "noise_ratios"
        ELSE IF lang = <<"a", "r">> /\ looks_like_movie_subtitle_ar(text) THEN "subtitle"
        ELSE IF sha1(Strip(text)) \in seen THEN "duplicate"
        ELSE "keep"

\* sample texts
Words(word, n) == Join([i \in 1..n |-> word])

English50 == Words(<<"w", "o", "r", "d">>, 10) \o <<"s">>

English49 == Words(<<"w", "o", "r", "d">>, 10)

French50Digits == Words(<<"1", "2", "3">>, 6) \o <<" ">> \o Words(<<"m", "o", "t">>, 6) \o <<" ", "m", "o">>

Arabic63 == Words(WordBab, 16)

Arabic63Subtitle == Words(WordBab, 13) \o <<" ">> \o ArTerminator \o <<" ">>

PackEn == <<"e", "n", "g", "l", "i", "s", "h", "_", "p", "a", "c", "k", "_", "1">>

CleanLines ==
    { JsonLine("dumps", CleanRow(<<"c", "1">>, PackEn, <<"e", "n">>, <<"I", "n", "t", "r", "o">>, English50)),
      JsonLine("dumps", CleanRow(<<"c", "2">>, PackEn, <<>>, <<"I", "n", "t", "r", "o">>, English50)),
      JsonLine("other", CleanRow(<<"c", "3">>, <<"X">>, <<"E", "N">>, <<>>, <<" ">> \o English50 \o <<" ">>)),
      JsonLine("dumps", CleanRow(<<"c", "4">>, <<"X">>, <<"d", "e">>, <<>>, English50)),
      JsonLine("dumps", CleanRow(<<"c", "5">>, <<"X">>, <<"e", "n">>, <<>>, English49)),
      JsonLine("dumps", CleanRow(<<"c", "6">>, <<"X">>, <<"e", "n">>,
                                 <<"T", "a", "b", "l", "e", " ", "o", "f", " ", "C", "o", "n", "t", "e", "n", "t", "s">>,
                                 English50 \o <<"s">>)),
      JsonLine("dumps", CleanRow(<<"c", "7">>, <<"X">>, <<"f", "r">>, <<>>, French50Digits)),
      JsonLine("dumps", CleanRow(<<"A", "R", "_", "8">>, <<"X">>, <<>>, <<>>, Arabic63Subtitle)),
      JsonLine("dumps", CleanRow(<<"c", "9">>, <<"X">>, <<"A", "R">>, <<>>, Arabic63)),
      BlankLine,
      BadLine }

CleanInputs == UNION { [1..n -> CleanLines] : n \in 0..MaxCleanRows }

CleanInit ==
    /\ cc_input \in CleanInputs
    /\ cc_pos = 0
    /\ cc_kept = 0
    /\ cc_discarded = 0
    /\ cc_seen = {}
    /\ cc_fout = <<>>
    /\ cc_fdisc = <<>>
    /\ cc_pc = "read"
    /\ ChunkIdle
    /\ HygieneIdle
    /\ MainIdle
    /\ NormalizeIdle
    /\ SectionsIdle
    /\ UpsertIdle
    /\ MergeIdle
    /\ BuildIdle
    /\ UploadIdle
    /\ MirrorIdle
    /\ PagesIdle

\* the line read_jsonl is at
CleanLine == cc_input[cc_pos + 1]

CleanCanRead == cc_pc = "read" /\ cc_pos < Len(cc_input)

\* read_jsonl: a line that is empty after strip() is passed over
CleanSkipBlank ==
    /\ CleanCanRead
    /\ CleanLine.kind = "blank"
    /\ cc_pos' = cc_pos + 1
    /\ UNCHANGED <<cc_input, cc_kept, cc_discarded, cc_seen, cc_fout, cc_fdisc, cc_pc>>
    /\ UNCHANGED cc_others

\* read_jsonl: json.loads raises and the exception leaves main
CleanCrash ==
    /\ CleanCanRead
    /\ CleanLine.kind = "bad"
    /\ cc_pos' = cc_pos + 1
    /\ cc_pc' = "crashed"
    /\ UNCHANGED <<cc_input, cc_kept, cc_discarded, cc_seen, cc_fout, cc_fdisc>>
    /\ UNCHANGED cc_others

\* a discarded row that is written but not counted
CleanDiscard_NotCounted ==
    /\ CleanCanRead
    /\ CleanLine.kind = "json"
    /\ CleanVerdict(json_loads(CleanLine), cc_seen) # "keep"
    /\ cc_pos' = cc_pos + 1
    /\ cc_fdisc' = Append(cc_fdisc, [src |-> cc_pos + 1, line |-> json_dumps(json_loads(CleanLine))])
    /\ UNCHANGED <<cc_input, cc_kept, cc_discarded, cc_seen, cc_fout, cc_pc>>
    /\ UNCHANGED cc_others

\* one of the six tests discards the row: it is counted and written, as
\* parsed, to the discarded file (src: the input line it came from)
CleanDiscard ==
    /\ CleanCanRead
    /\ CleanLine.kind = "json"
    /\ CleanVerdict(json_loads(CleanLine), cc_seen) # "keep"
    /\ cc_pos' = cc_pos + 1
    /\ cc_discarded' = cc_discarded + 1
    /\ cc_fdisc' = Append(cc_fdisc, [src |-> cc_pos + 1, line |-> json_dumps(json_loads(CleanLine))])
    /\ UNCHANGED <<cc_input, cc_kept, cc_seen, cc_fout, cc_pc>>
    /\ UNCHANGED cc_others

\* the row passes: its hash is remembered, its language is set and it is
\* written to the kept file
CleanKeep ==
    /\ CleanCanRead
    /\ CleanLine.kind = "json"
    /\ LET row == json_loads(CleanLine)
       IN  /\ CleanVerdict(row, cc_seen) = "keep"
           /\ cc_seen' = cc_seen \cup {sha1(Strip(row.content))}
           /\ cc_fout' = Append(cc_fout,
                  [src |-> cc_pos + 1,
                   line |-> json_dumps([row EXCEPT !.language = RowLanguage(row)])])
    /\ cc_pos' = cc_pos + 1
    /\ cc_kept' = cc_kept + 1
    /\ UNCHANGED <<cc_input, cc_discarded, cc_fdisc, cc_pc>>
    /\ UNCHANGED cc_others

\* the input is exhausted: print(f"Kept: {kept} | Discarded: {discarded}")
CleanFinish ==
    /\ cc_pc = "read"
    /\ cc_pos = Len(cc_input)
    /\ cc_pc' = "done"
    /\ UNCHANGED <<cc_input, cc_pos, cc_kept, cc_discarded, cc_seen, cc_fout, cc_fdisc>>
    /\ UNCHANGED cc_others

CleanNext == CleanSkipBlank \/ CleanCrash \/ CleanDiscard \/ CleanKeep \/ CleanFinish

SpecClean == CleanInit /\ [][CleanNext]_vars

\* the input lines main has got as rows so far
RowsRead == { i \in 1..cc_pos : cc_input[i].kind = "json" }

\* the input lines a file's records came from, in the order of the file
Sources(file) == [k \in 1..Len(file) |-> file[k].src]

Increasing(s) == \A j, k \in 1..Len(s) : j < k => s[j] < s[k]

\* C18: every row read by main is written to exactly one of the kept and the
\* discarded file, each file is in input order, kept + discarded is the
\* number of rows read, and a discarded row is written unchanged.
C18_RowsPartitioned ==
    /\ cc_kept + cc_discarded = Cardinality(RowsRead)
    /\ Len(cc_fout) = cc_kept
    /\ Len(cc_fdisc) = cc_discarded
    /\ Increasing(Sources(cc_fout))
    /\ Increasing(Sources(cc_fdisc))
    /\ \A i \in RowsRead :
          (\E k \in 1..Len(cc_fout) : cc_fout[k].src = i)
              # (\E k \in 1..Len(cc_fdisc) : cc_fdisc[k].src = i)
    /\ \A k \in 1..Len(cc_fout) : cc_fout[k].src \in RowsRead
    /\ \A k \in 1..Len(cc_fdisc) :
          /\ cc_fdisc[k].src \in RowsRead
          /\ json_loads(cc_fdisc[k].line) = json_loads(cc_input[cc_fdisc[k].src])

\* the text of a discarded row is the text json.dumps gives for it, which is
\* the input line only when the input was written that way
DiscardedLineIsDumps ==
    \A k \in 1..Len(cc_fdisc) :
        cc_fdisc[k].line = cc_input[cc_fdisc[k].src]
            <=> cc_input[cc_fdisc[k].src].form = "dumps"

\* C18: a finished run over three rows with a kept row between two
\* discarded ones, the second of them a duplicate of the kept row.
C18_Witness ==
    /\ cc_pc = "done"
    /\ Len(cc_input) = 3
    /\ Sources(cc_fdisc) = <<1, 3>>
    /\ Sources(cc_fout) = <<2>>
    /\ sha1(Strip(json_loads(cc_input[3]).content)) \in cc_seen
    /\ json_loads(cc_fout[1].line) # json_loads(cc_input[2])

-----------------------------------------------------------------------------
(* embed_upsert_v4.py: upsert_with_retry and the loop of main that calls it *)
(* once for each namespace group of a batch.  Each call of index.upsert     *)
(* succeeds or raises; the calls and the sleeps are recorded as they occur. *)

MaxRetries == 3

MaxGroups == 2

Namespaces == {"en", "fr", "ar"}

\* the groups main upserts, in order: a namespace and its number of vectors
Groups == { [ns |-> ns, n |-> n] : ns \in Namespaces, n \in 1..2 }

UpsertWork == UNION { [1..g -> Groups] : g \in 1..MaxGroups }

\* time.sleep(backoff * (2 ** attempt)) with the sleep never growing
SleepSeconds_Constant(backoff, attempt) == backoff

\* time.sleep(backoff * (2 ** attempt))
SleepSeconds(backoff, attempt) == backoff * (2 ^ attempt)

UpsertInit ==
    /\ up_retries \in 0..MaxRetries
    /\ up_backoff \in {1, 3}
    /\ up_work \in UpsertWork
    /\ up_k = 0
    /\ up_attempt = 0
    /\ up_calls = <<>>
    /\ up_sleeps = <<>>
    /\ up_counts = [ns \in Namespaces |-> 0]
    /\ up_pc = "main"
    /\ ChunkIdle
    /\ HygieneIdle
    /\ MainIdle
    /\ NormalizeIdle
    /\ SectionsIdle
    /\ CleanIdle
    /\ MergeIdle
    /\ BuildIdle
    /\ UploadIdle
    /\ MirrorIdle
    /\ PagesIdle

\* the group main is at
Group == up_work[up_k + 1]

\* upsert_with_retry has returned: per_ns_counts[ns] += len(vectors)
Returned == [up_counts EXCEPT ![Group.ns] = @ + Group.n]

\* main calls upsert_with_retry(index, vectors, namespace=ns)
UpsertEnter ==
    /\ up_pc = "main"
    /\ up_k < Len(up_work)
    /\ up_attempt' = 0
    /\ up_pc' = "attempt"
    /\ UNCHANGED <<up_retries, up_backoff, up_work, up_k, up_calls, up_sleeps, up_counts>>
    /\ UNCHANGED up_others

\* index.upsert succeeds: return
UpsertSucceeds ==
    /\ up_pc = "attempt"
    /\ up_attempt < up_retries
    /\ up_calls' = Append(up_calls, [group |-> up_k + 1, attempt |-> up_attempt, ok |-> TRUE])
    /\ up_counts' = Returned
    /\ up_k' = up_k + 1
    /\ up_pc' = "main"
    /\ UNCHANGED <<up_retries, up_backoff, up_work, up_attempt, up_sleeps>>
    /\ UNCHANGED up_others

\* index.upsert raises and an attempt remains: sleep, next attempt
UpsertFailsRetry ==
    /\ up_pc = "attempt"
    /\ up_attempt < up_retries
    /\ up_attempt # up_retries - 1
    /\ up_calls' = Append(up_calls, [group |-> up_k + 1, attempt |-> up_attempt, ok |-> FALSE])
    /\ up_sleeps' = Append(up_sleeps, [group |-> up_k + 1, attempt |-> up_attempt,
                                       seconds |-> SleepSeconds(up_backoff, up_attempt)])
    /\ up_attempt' = up_attempt + 1
    /\ UNCHANGED <<up_retries, up_backoff, up_work, up_k, up_counts, up_pc>>
    /\ UNCHANGED up_others

\* index.upsert raises on the last attempt: raise, which leaves main
UpsertFailsRaise ==
    /\ up_pc = "attempt"
    /\ up_attempt < up_retries
    /\ up_attempt = up_retries - 1
    /\ up_calls' = Append(up_calls, [group |-> up_k + 1, attempt |-> up_attempt, ok |-> FALSE])
    /\ up_pc' = "aborted"
    /\ UNCHANGED <<up_retries, up_backoff, up_work, up_k, up_attempt, up_sleeps, up_counts>>
    /\ UNCHANGED up_others

\* range(retries) is exhausted: the function ends without a return statement
UpsertFallsThrough ==
    /\ up_pc = "attempt"
    /\ up_attempt >= up_retries
    /\ up_counts' = Returned
    /\ up_k' = up_k + 1
    /\ up_pc' = "main"
    /\ UNCHANGED <<up_retries, up_backoff, up_work, up_attempt, up_calls, up_sleeps>>
    /\ UNCHANGED up_others

\* every group is upserted: the totals are printed
UpsertDone ==
    /\ up_pc = "main"
    /\ up_k = Len(up_work)
    /\ up_pc' = "done"
    /\ UNCHANGED <<up_retries, up_backoff, up_work, up_k, up_attempt, up_calls,
                   up_sleeps, up_counts>>
    /\ UNCHANGED up_others

UpsertNext ==
    \/ UpsertEnter
    \/ UpsertSucceeds
    \/ UpsertFailsRetry
    \/ UpsertFailsRaise
    \/ UpsertFallsThrough
    \/ UpsertDone

SpecUpsert == UpsertInit /\ [][UpsertNext]_vars

\* the calls and the sleeps of the upsert_with_retry call for group g
CallsOf(g) == SelectSeq(up_calls, LAMBDA c : c.group = g)

SleepsOf(g) == SelectSeq(up_sleeps, LAMBDA z : z.group = g)

\* C20: upsert_with_retry calls index.upsert at most retries times, returns
\* right after the first successful call, sleeps backoff * 2^k after the
\* k-th failed attempt (k = 0, 1, ...) only when another attempt remains,
\* and when every attempt fails the last exception leaves main: the run is
\* aborted and no later group is upserted.
C20_RetryWithBackoff ==
    \A g \in 1..Len(up_work) :
        LET calls == CallsOf(g)
            sleeps == SleepsOf(g)
            failed == { j \in 1..Len(calls) : ~calls[j].ok }
        IN  /\ Len(calls) <= up_retries
            /\ \A j \in 1..Len(calls) : calls[j].attempt = j - 1
            /\ \A j \in 1..(Len(calls) - 1) : ~calls[j].ok
            /\ (calls # <<>> /\ calls[Len(calls)].ok) => up_k >= g
            /\ Len(sleeps) = Cardinality({ j \in failed : j < up_retries })
            /\ \A j \in 1..Len(sleeps) :
                  /\ sleeps[j].attempt = j - 1
                  /\ sleeps[j].seconds = up_backoff * (2 ^ (j - 1))
            /\ (Len(calls) = up_retries /\ up_retries > 0 /\ failed = 1..up_retries)
                  => /\ up_pc = "aborted"
                     /\ up_k = g - 1
                     /\ \A h \in (g + 1)..Len(up_work) : CallsOf(h) = <<>>
            /\ up_pc = "aborted" => (g > up_k + 1 => calls = <<>>)

\* C20: the first group went through on its third attempt, after sleeps of
\* backoff and 2 * backoff, and the run was aborted in the second group,
\* whose three attempts all failed.
C20_Witness ==
    /\ up_pc = "aborted"
    /\ up_retries = 3
    /\ Len(up_work) = 2
    /\ up_k = 1
    /\ Len(CallsOf(1)) = 3
    /\ CallsOf(1)[3].ok
    /\ Len(SleepsOf(1)) = 2
    /\ SleepsOf(1)[2].seconds = 2 * up_backoff
    /\ Len(CallsOf(2)) = 3
    /\ Len(SleepsOf(2)) = 2

\* the groups whose upsert_with_retry call has returned normally
ReturnedGroups == 1..up_k

\* one of the index.upsert calls made for group g succeeded
Upserted(g) == \E j \in 1..Len(CallsOf(g)) : CallsOf(g)[j].ok

RECURSIVE CountOf(_, _)
\* the number of vectors of namespace ns in the groups of G
CountOf(G, ns) ==
    IF G = {} THEN 0
    ELSE LET g == CHOOSE h \in G : TRUE
         IN  (IF up_work[g].ns = ns THEN up_work[g].n ELSE 0) + CountOf(G \ {g}, ns)

\* C30: upsert_with_retry returns normally only when one of its index.upsert
\* calls succeeded, whatever the value of retries, and so per_ns_counts
\* counts only vectors that were upserted.
C30_ReturnsOnlyAfterSuccess ==
    /\ \A g \in ReturnedGroups : Upserted(g)
    /\ \A ns \in Namespaces :
          up_counts[ns] = CountOf({ g \in ReturnedGroups : Upserted(g) }, ns)

\* With retries >= 1 a normal return follows a successful call, and
\* per_ns_counts counts the upserted vectors.
ReturnsOnlyAfterSuccessWithRetries ==
    up_retries >= 1 => C30_ReturnsOnlyAfterSuccess

\* With retries <= 0 every call returns normally without calling
\* index.upsert, and per_ns_counts counts every group all the same.
ReturnsWithoutCallWithoutRetries ==
    up_retries <= 0 =>
        /\ up_calls = <<>>
        /\ up_pc # "aborted"
        /\ \A ns \in Namespaces : up_counts[ns] = CountOf(ReturnedGroups, ns)

-----------------------------------------------------------------------------
(* build_index.py: chunk_text, the character-count chunker.  The text is    *)
(* the one normalize_text returns; a window is kept by its bounds lo, hi:   *)
(* the characters text[lo:hi], numbered from 0.                             *)

MaxTextLen == 4

MaxSize == 3

\* the turns of the while loop followed in a run that does not leave the loop
MaxTurns == MaxTextLen + 2

BuildTexts == UNION { [1..n -> {"a", " "}] : n \in 0..MaxTextLen }

\* the index a slice bound stands for in a sequence of n elements
SliceIndex(a, n) == IF a < 0 THEN Max(0, n + a) ELSE Min(a, n)

\* text[a:b], either bound negative or not
TextSlice(text, a, b) ==
    SubSeq(text, SliceIndex(a, Len(text)) + 1, SliceIndex(b, Len(text)))

BuildInit ==
    /\ bi_text \in BuildTexts
    /\ bi_chunk_size \in 1..MaxSize
    /\ bi_overlap \in 0..MaxSize
    /\ bi_start = 0
    /\ bi_chunks = <<>>
    /\ bi_turns = 0
    /\ bi_pc = "loop"
    /\ ChunkIdle
    /\ HygieneIdle
    /\ MainIdle
    /\ NormalizeIdle
    /\ SectionsIdle
    /\ CleanIdle
    /\ UpsertIdle
    /\ MergeIdle
    /\ UploadIdle
    /\ MirrorIdle
    /\ PagesIdle

\* one turn of `while start < len(text)`
BuildTurn ==
    /\ bi_pc = "loop"
    /\ bi_start < Len(bi_text)
    /\ bi_turns < MaxTurns
    /\ LET end == bi_start + bi_chunk_size
           chunk == TextSlice(bi_text, bi_start, end)
       IN  bi_chunks' = IF Strip(chunk) # <<>>
                        THEN Append(bi_chunks, [lo |-> SliceIndex(bi_start, Len(bi_text)),
                                                hi |-> SliceIndex(end, Len(bi_text))])
                        ELSE bi_chunks
    /\ bi_start' = bi_start + (bi_chunk_size - bi_overlap)
    /\ bi_turns' = bi_turns + 1
    /\ UNCHANGED <<bi_text, bi_chunk_size, bi_overlap, bi_pc>>
    /\ UNCHANGED bi_others

\* the loop condition fails: return chunks
BuildReturn ==
    /\ bi_pc = "loop"
    /\ bi_start >= Len(bi_text)
    /\ bi_pc' = "done"
    /\ UNCHANGED <<bi_text, bi_chunk_size, bi_overlap, bi_start, bi_chunks, bi_turns>>
    /\ UNCHANGED bi_others

BuildNext == BuildTurn \/ BuildReturn

SpecBuild == BuildInit /\ [][BuildNext]_vars

\* the windows of the word-based chunk_text over the characters of the text,
\* by their bounds, without the windows of white space only
WordWindows ==
    LET w == chunk_windows(Tokens(Len(bi_text)), bi_chunk_size, bi_overlap)
        b == [k \in 1..Len(w) |-> [lo |-> w[k][1], hi |-> w[k][Len(w[k])] + 1]]
    IN  SelectSeq(b, LAMBDA x : Strip(SubSeq(bi_text, x.lo + 1, x.hi)) # <<>>)

\* C24: the character-count chunk_text returns the windows of the
\* word-based algorithm over the characters of the text, without the
\* windows of white space only, and it terminates: as the word-based loop it
\* takes at most one turn for each character.
C24_CharWindowsAsWordWindows ==
    /\ bi_turns <= Len(bi_text)
    /\ bi_pc = "done" => bi_chunks = WordWindows

\* with overlap = 0 the two algorithms take the same windows
SameWindowsWithoutOverlap ==
    bi_overlap = 0 => C24_CharWindowsAsWordWindows

\* with 0 < overlap < chunk_size the loop ends, and it goes on after the
\* first window that reaches the end of the text: the windows of the
\* word-based algorithm come first, each further window ends at the end of
\* the text too
MoreWindowsWithOverlap ==
    bi_overlap < bi_chunk_size =>
        /\ bi_turns <= Len(bi_text)
        /\ bi_pc = "done" =>
              /\ Len(WordWindows) <= Len(bi_chunks)
              /\ SubSeq(bi_chunks, 1, Len(WordWindows)) = WordWindows
              /\ \A k \in (Len(WordWindows) + 1)..Len(bi_chunks) :
                    bi_chunks[k].hi = Len(bi_text)

\* with overlap >= chunk_size start never grows and the loop is never left
NoReturnWithoutProgress ==
    (bi_overlap >= bi_chunk_size /\ bi_text # <<>>) =>
        /\ bi_pc = "loop"
        /\ bi_start <= 0
        /\ bi_start < Len(bi_text)

\* a window after the one that reached the end of the text
C24_ExtraWindow ==
    /\ bi_pc = "done"
    /\ bi_overlap < bi_chunk_size
    /\ Len(bi_chunks) > Len(WordWindows)

-----------------------------------------------------------------------------
(* embed_upsert_v4.py and old/embed_to_pinecone.py: what main does with one *)
(* batch of rows.  A row is what the loop reads of it: its chunk_id, its    *)
(* content, its language field and its pack_id.  A vector is named by the   *)
(* place of its row in the batch.                                           *)

MaxBatch == 2

LANGS == { <<"e", "n">>, <<"f", "r">>, <<"a", "r">> }

UploadScripts == {"embed_upsert_v4", "embed_to_pinecone"}

ArabicPackId ==
    <<"A", "R", "-", "C", "O", "M", "P", "-", "T", "H", "I", "N", "K", "-",
      "2", "0", "2", "2">>

EnglishPackId ==
    <<"e", "n", "g", "l", "i", "s", "h", "_", "p", "a", "c", "k", "_", "6">>

UploadRows ==
    [chunk_id : { <<>>, ArabicPackId \o <<"_", "8", "4", "_", "2">>,
                  EnglishPackId \o <<"_", "1">> },
     content : { <<>>, <<"t", "e", "x", "t">> },
     language : { <<"e", "n">>, <<"F", "R">>, <<"a", "r">>, <<>> },
     pack_id : { EnglishPackId, ArabicPackId, <<"b", "o", "o", "k">> }]

\* infer_language_from_ids of embed_upsert_v4.py
infer_language_from_ids(p, c) ==
    LET pl == LowerText(p)
        cl == LowerText(c)
        french == <<"f", "r", "e", "n", "c", "h", "_", "p", "a", "c", "k", "_">>
        english == <<"e", "n", "g", "l", "i", "s", "h", "_", "p", "a", "c", "k", "_">>
    IN  IF \/ StartsWith(c, <<"A", "R", "-">>) \/ StartsWith(c, <<"A", "R", "_">>)
           \/ StartsWith(p, <<"A", "R", "-">>) \/ StartsWith(p, <<"A", "R", "_">>)
        THEN <<"a", "r">>
        ELSE IF StartsWith(cl, french) \/ StartsWith(pl, french) THEN <<"f", "r">>
        ELSE IF StartsWith(cl, english) \/ StartsWith(pl, english) THEN <<"e", "n">>
        ELSE <<"u", "n", "k", "n", "o", "w", "n">>

\* str.upper() of one character
Upper(c) ==
    IF c \in LatinLetters /\ c \notin UpperLetters
    THEN LatinUpper[CHOOSE i \in 1..Len(LatinLower) : c = LatinLower[i]]
    ELSE c

UpperText(s) == [i \in 1..Len(s) |-> Upper(s[i])]

\* \w: an alphanumeric character or the underscore
IsWordChar(c) == IsAlpha(c) \/ IsDigit(c) \/ c = "_"

\* re.search(r"\b" + word + "[-_]", s) for a word of word characters
SearchWordDash(s, word) ==
    \E i \in 1..(Len(s) - Len(word)) :
        /\ MatchAt(s, i, word)
        /\ s[i + Len(word)] \in {"-", "_"}
        /\ (i = 1 \/ ~IsWordChar(s[i - 1]))

\* infer_language of old/embed_to_pinecone.py
infer_language_of_ids(p, c) ==
    LET s_lower == LowerText(p \o <<" ">> \o c)
        s_upper == UpperText(p \o <<" ">> \o c)
    IN  IF \/ Search(s_lower, { <<"e", "n", "g", "l", "i", "s", "h", "_", "p", "a", "c", "k">> })
           \/ SearchWordDash(s_lower, <<"e", "n">>)
        THEN <<"e", "n">>
        ELSE IF \/ Search(s_lower, { <<"f", "r", "e", "n", "c", "h", "_", "p", "a", "c", "k">> })
                \/ SearchWordDash(s_lower, <<"f", "r">>)
        THEN <<"f", "r">>
        ELSE IF \/ StartsWith(s_upper, <<"A", "R", "-">>)
                \/ Search(s_upper, { <<" ", "A", "R", "-">>, <<" ", "A", "R", "_">> })
                \/ StartsWith(s_upper, <<"A", "R", "_">>)
        THEN <<"a", "r">>
        ELSE <<"u", "n", "k", "n", "o", "w", "n">>

\* lang if lang in {"en", "fr", "ar"} else "all"
OrAll(lang) == IF lang \in LANGS THEN lang ELSE <<"a", "l", "l">>

\* embed_upsert_v4.py: the language of a row, "unknown" for a row to skip
RowLang(row) ==
    IF LowerText(row.language) \in LANGS THEN LowerText(row.language)
    ELSE infer_language_from_ids(row.pack_id, row.chunk_id)

\* if not cid or not text: continue
RowUsable(row) == row.chunk_id # <<>> /\ row.content # <<>>

\* the places in the batch of the rows whose vectors are made
RowsTaken(scr, batch) ==
    SelectSeq([k \in 1..Len(batch) |-> k],
              LAMBDA k : /\ RowUsable(batch[k])
                         /\ scr = "embed_upsert_v4" => RowLang(batch[k]) \in LANGS)

RECURSIVE Flatten(_)
Flatten(ss) == IF ss = <<>> THEN <<>> ELSE Head(ss) \o Flatten(Tail(ss))

\* the list nss: one entry for each row taken in embed_upsert_v4.py, two in
\* old/embed_to_pinecone.py, which appends to nss before and after metas
NssOf(scr, batch) ==
    LET taken == RowsTaken(scr, batch)
    IN  IF scr = "embed_upsert_v4"
        THEN [j \in 1..Len(taken) |-> RowLang(batch[taken[j]])]
        ELSE Flatten([j \in 1..Len(taken) |->
                         <<OrAll(infer_language_of_ids(batch[taken[j]].pack_id,
                                                       batch[taken[j]].chunk_id)),
                           OrAll(LowerText(batch[taken[j]].language))>>])

\* by_ns after `for ... in zip(ids, vecs, metas, nss)`: the items in the
\* order of insertion, zip stopping at the end of the shortest list
RECURSIVE GroupByNs(_, _, _, _)
GroupByNs(taken, nss, j, by_ns) ==
    IF j > Min(Len(taken), Len(nss)) THEN by_ns
    ELSE LET at == { k \in 1..Len(by_ns) : by_ns[k].ns = nss[j] }
         IN  IF at = {}
             THEN GroupByNs(taken, nss, j + 1,
                            Append(by_ns, [ns |-> nss[j], rows |-> <<taken[j]>>]))
             ELSE LET k == CHOOSE k \in at : TRUE
                  IN  GroupByNs(taken, nss, j + 1,
                                [by_ns EXCEPT ![k].rows = Append(@, taken[j])])

UploadInit ==
    /\ ul_script \in UploadScripts
    /\ ul_batch \in UNION { [1..n -> UploadRows] : n \in 1..MaxBatch }
    /\ ul_by_ns = <<>>
    /\ ul_k = 0
    /\ ul_upserts = <<>>
    /\ ul_pc = "batch"
    /\ ChunkIdle
    /\ HygieneIdle
    /\ MainIdle
    /\ NormalizeIdle
    /\ SectionsIdle
    /\ CleanIdle
    /\ UpsertIdle
    /\ MergeIdle
    /\ BuildIdle
    /\ MirrorIdle
    /\ PagesIdle

\* the loop over the rows finds none to embed: continue
UploadNothing ==
    /\ ul_pc = "batch"
    /\ RowsTaken(ul_script, ul_batch) = <<>>
    /\ ul_pc' = "done"
    /\ UNCHANGED <<ul_script, ul_batch, ul_by_ns, ul_k, ul_upserts>>
    /\ UNCHANGED ul_others

\* the loop over the rows, model.encode and the grouping by namespace
UploadGroup ==
    /\ ul_pc = "batch"
    /\ RowsTaken(ul_script, ul_batch) # <<>>
    /\ ul_by_ns' = GroupByNs(RowsTaken(ul_script, ul_batch), NssOf(ul_script, ul_batch),
                             1, <<>>)
    /\ ul_pc' = "upsert"
    /\ UNCHANGED <<ul_script, ul_batch, ul_k, ul_upserts>>
    /\ UNCHANGED ul_others

\* for ns, vectors in by_ns.items(): the upsert goes through
UploadUpsert ==
    /\ ul_pc = "upsert"
    /\ ul_k < Len(ul_by_ns)
    /\ ul_upserts' = Append(ul_upserts, ul_by_ns[ul_k + 1])
    /\ ul_k' = ul_k + 1
    /\ UNCHANGED <<ul_script, ul_batch, ul_by_ns, ul_pc>>
    /\ UNCHANGED ul_others

\* index.upsert raises (in embed_upsert_v4.py on the last attempt of
\* upsert_with_retry): the exception leaves main
UploadRaises ==
    /\ ul_pc = "upsert"
    /\ ul_k < Len(ul_by_ns)
    /\ ul_pc' = "aborted"
    /\ UNCHANGED <<ul_script, ul_batch, ul_by_ns, ul_k, ul_upserts>>
    /\ UNCHANGED ul_others

\* every item of by_ns is upserted
UploadDone ==
    /\ ul_pc = "upsert"
    /\ ul_k = Len(ul_by_ns)
    /\ ul_pc' = "done"
    /\ UNCHANGED <<ul_script, ul_batch, ul_by_ns, ul_k, ul_upserts>>
    /\ UNCHANGED ul_others

UploadNext ==
    \/ UploadNothing
    \/ UploadGroup
    \/ UploadUpsert
    \/ UploadRaises
    \/ UploadDone

SpecUpload == UploadInit /\ [][UploadNext]_vars

\* the namespaces computed from a row itself
OwnNamespaces(scr, row) ==
    IF scr = "embed_upsert_v4" THEN {RowLang(row)}
    ELSE {OrAll(LowerText(row.language)),
          OrAll(infer_language_of_ids(row.pack_id, row.chunk_id))}

\* the vectors upserted, each with the namespace it went to
UpsertedVectors ==
    UNION { { [row |-> ul_upserts[k].rows[j], ns |-> ul_upserts[k].ns] :
                j \in 1..Len(ul_upserts[k].rows) } : k \in 1..Len(ul_upserts) }

\* C25: every vector upserted went to a namespace computed from its own
\* row: the language of the row or, in old/embed_to_pinecone.py, the
\* catch-all "all" or the language inferred from the ids of the row.
C25_OwnNamespace ==
    \A v \in UpsertedVectors : v.ns \in OwnNamespaces(ul_script, ul_batch[v.row])

\* embed_upsert_v4.py upserts every vector into the namespace of its row,
\* each row taken once when the batch is done
OwnNamespaceInV4 ==
    ul_script = "embed_upsert_v4" =>
        /\ C25_OwnNamespace
        /\ ul_pc = "done" =>
              \A k \in 1..Len(ul_batch) :
                  (RowUsable(ul_batch[k]) /\ RowLang(ul_batch[k]) \in LANGS)
                      <=> \E v \in UpsertedVectors : v.row = k

\* old/embed_to_pinecone.py: the j-th vector goes with the j-th entry of
\* nss, which for j = 2i - 1 is the namespace inferred from the ids of the
\* i-th row taken and for j = 2i the namespace of its language field
NamespaceOfEarlierRow ==
    ul_script = "embed_to_pinecone" =>
        LET taken == RowsTaken(ul_script, ul_batch)
        IN  \A v \in UpsertedVectors :
                \E j \in 1..Len(taken) :
                    /\ taken[j] = v.row
                    /\ LET src == ul_batch[taken[(j + 1) \div 2]]
                       IN  v.ns = IF j % 2 = 1
                                  THEN OrAll(infer_language_of_ids(src.pack_id,
                                                                   src.chunk_id))
                                  ELSE OrAll(LowerText(src.language))

\* a batch of an English row and an Arabic row, upserted by
\* old/embed_to_pinecone.py into one namespace
C25_MixedBatch ==
    /\ ul_script = "embed_to_pinecone"
    /\ ul_pc = "done"
    /\ Len(ul_batch) = 2
    /\ ul_batch[1] = [chunk_id |-> EnglishPackId \o <<"_", "1">>,
                      content |-> <<"t", "e", "x", "t">>, language |-> <<"e", "n">>,
                      pack_id |-> EnglishPackId]
    /\ ul_batch[2] = [chunk_id |-> ArabicPackId \o <<"_", "8", "4", "_", "2">>,
                      content |-> <<"t", "e", "x", "t">>, language |-> <<"a", "r">>,
                      pack_id |-> ArabicPackId]
    /\ ul_upserts = <<[ns |-> <<"e", "n">>, rows |-> <<1, 2>>]>>

-----------------------------------------------------------------------------
(* Chapter detection twice: extract_chapters of extract_chapters.py and the *)
(* chapter loop of find_section_starts of old/txt_to_sections.py, each with *)
(* its own CHAP_RE.  A line is a chapter heading, the chapter heading       *)
(* spelled with a tatweel in the ordinal (U+0640 in the word for "fifth"),  *)
(* that heading made longer than 120 characters by the white space between  *)
(* its two words, a blank line, a line of text or a line of text of more    *)
(* than 120 characters.                                                     *)
(* Positions are line numbers, texts are sequences of line numbers, and the *)
(* chapter number extract_chapters reports is left out.                     *)

MaxMirrorLines == 4

MirrorKinds == {"chapter", "chapter_tatweel", "long_chapter_tatweel", "blank", "text", "long"}

\* CHAP_RE of old/txt_to_sections.py, CHAP_RE_AR of txt_to_sections_en_fr.py
CHAP_RE_sections(line) == line \in {"chapter", "chapter_tatweel", "long_chapter_tatweel"}

\* find_section_starts of old/txt_to_sections.py: the inner while loop
RECURSIVE stitch_title_lines(_, _, _)
stitch_title_lines(lines, i, title_lines) ==
    IF i > Len(lines) THEN [i |-> i, title_lines |-> title_lines]
    ELSE IF lines[i] = "blank"
         THEN IF title_lines # <<>>
              THEN [i |-> i + 1, title_lines |-> title_lines]
              ELSE stitch_title_lines(lines, i + 1, title_lines)
    ELSE IF CHAP_RE_sections(lines[i]) THEN [i |-> i, title_lines |-> title_lines]
    ELSE IF LongerThan120(lines[i]) /\ title_lines # <<>>
         THEN [i |-> i, title_lines |-> title_lines]
    ELSE LET more == Append(title_lines, i)
         IN  IF Len(more) >= 3
             THEN [i |-> i + 1, title_lines |-> more]
             ELSE stitch_title_lines(lines, i + 1, more)

\* find_section_starts of old/txt_to_sections.py: the chapter loop, from
\* line i on
RECURSIVE chapter_markers(_, _)
chapter_markers(lines, i) ==
    IF i > Len(lines) THEN <<>>
    ELSE IF ~CHAP_RE_sections(lines[i]) THEN chapter_markers(lines, i + 1)
    ELSE LET scan == stitch_title_lines(lines, i + 1, <<>>)
         IN  <<[pos |-> i, kind |-> "chapter", heading |-> i,
                title |-> IF scan.title_lines # <<>> THEN scan.title_lines ELSE <<i>>,
                skip_lines |-> 1 + Len(scan.title_lines)]>>
             \o chapter_markers(lines, scan.i)

MirrorInit ==
    /\ mr_lines \in UNION { [1..n -> MirrorKinds] : n \in 0..MaxMirrorLines }
    /\ mr_chapters = <<>>
    /\ mr_markers = <<>>
    /\ mr_pc = "call"
    /\ ChunkIdle
    /\ HygieneIdle
    /\ MainIdle
    /\ NormalizeIdle
    /\ SectionsIdle
    /\ CleanIdle
    /\ UpsertIdle
    /\ MergeIdle
    /\ BuildIdle
    /\ UploadIdle
    /\ PagesIdle

\* both functions are called on the text
MirrorDetect ==
    /\ mr_pc = "call"
    /\ mr_chapters' = extract_chapters(mr_lines, 1)
    /\ mr_markers' = DedupByPos(SortByPos(chapter_markers(mr_lines, 1)))
    /\ mr_pc' = "returned"
    /\ UNCHANGED mr_lines
    /\ UNCHANGED mr_others

MirrorNext == MirrorDetect

SpecMirror == MirrorInit /\ [][MirrorNext]_vars

\* the k-th marker and the k-th chapter have the same heading line and the
\* same title, the heading where extract_chapters has no title
SameChapter(k) ==
    /\ mr_markers[k].heading = mr_chapters[k].chapter_heading
    /\ mr_markers[k].title = IF mr_chapters[k].chapter_title = "None"
                             THEN <<mr_chapters[k].chapter_heading>>
                             ELSE mr_chapters[k].chapter_title

\* C26: the chapter markers of find_section_starts and the chapters of
\* extract_chapters correspond one to one and in order, with the same
\* heading line and the same stitched title.
C26_ChaptersMirrored ==
    mr_pc = "returned" =>
        /\ Len(mr_markers) = Len(mr_chapters)
        /\ \A k \in 1..Len(mr_markers) : SameChapter(k)

\* on a text without the heading spelled with a tatweel the two agree
MirroredWithoutTatweel ==
    (\A i \in 1..Len(mr_lines) : mr_lines[i] \notin {"chapter_tatweel", "long_chapter_tatweel"})
        => C26_ChaptersMirrored

\* a heading spelled with a tatweel is a chapter for find_section_starts
\* alone: extract_chapters has no chapter for it and stitches the line into
\* the title of the chapter before it
C26_TatweelHeading ==
    /\ mr_pc = "returned"
    /\ mr_lines = <<"chapter", "chapter_tatweel", "text">>
    /\ Len(mr_markers) = 2
    /\ mr_markers[1].title = <<1>>
    /\ Len(mr_chapters) = 1
    /\ mr_chapters[1].chapter_title = <<2, 3>>

-----------------------------------------------------------------------------
(* txt_to_sections of txt_to_sections_en_fr.py and old/txt_to_sections.py:  *)
(* the loop that writes one record for each paragraph of each section.  A   *)
(* paragraph is kept by len(content_n), the length of its normalized text.  *)

MaxSections == 2

MaxParas == 2

\* if not content_n or len(content_n) < 5: continue
MinParagraphChars == 5

PagesScripts == {"txt_to_sections_en_fr", "txt_to_sections"}

ParagraphLengths == {0, MinParagraphChars - 1, MinParagraphChars}

Paragraphs == UNION { [1..n -> ParagraphLengths] : n \in 0..MaxParas }

\* page_counter += 1 leaving the counter as it is
NextPage_Same(c) == c

\* page_counter += 1
NextPage(c) == c + 1

PagesInit ==
    /\ pg_script \in PagesScripts
    /\ pg_sections \in UNION { [1..n -> Paragraphs] : n \in 1..MaxSections }
    /\ pg_s = 1
    /\ pg_p = 1
    /\ page_counter = 1
    /\ pg_out = <<>>
    /\ pg_pc = "loop"
    /\ ChunkIdle
    /\ HygieneIdle
    /\ MainIdle
    /\ NormalizeIdle
    /\ SectionsIdle
    /\ CleanIdle
    /\ UpsertIdle
    /\ MergeIdle
    /\ BuildIdle
    /\ UploadIdle
    /\ MirrorIdle

\* the inner loop has a paragraph to take
AtParagraph ==
    /\ pg_pc = "loop"
    /\ pg_s <= Len(pg_sections)
    /\ pg_p <= Len(pg_sections[pg_s])

\* the paragraph is empty or shorter than 5 characters: continue
PageSkip ==
    /\ AtParagraph
    /\ LET n == pg_sections[pg_s][pg_p]
       IN  n = 0 \/ n < MinParagraphChars
    /\ pg_p' = pg_p + 1
    /\ UNCHANGED <<pg_script, pg_sections, pg_s, page_counter, pg_out, pg_pc>>
    /\ UNCHANGED pg_others

\* the record is written and the counter advanced
PageWrite ==
    /\ AtParagraph
    /\ LET n == pg_sections[pg_s][pg_p]
       IN  /\ ~(n = 0 \/ n < MinParagraphChars)
           /\ pg_out' = Append(pg_out, [section |-> pg_s, para |-> pg_p,
                                        page |-> page_counter, length |-> n])
    /\ page_counter' = NextPage(page_counter)
    /\ pg_p' = pg_p + 1
    /\ UNCHANGED <<pg_script, pg_sections, pg_s, pg_pc>>
    /\ UNCHANGED pg_others

\* the paragraphs of the section are done: next section
PageNextSection ==
    /\ pg_pc = "loop"
    /\ pg_s <= Len(pg_sections)
    /\ pg_p > Len(pg_sections[pg_s])
    /\ pg_s' = pg_s + 1
    /\ pg_p' = 1
    /\ UNCHANGED <<pg_script, pg_sections, page_counter, pg_out, pg_pc>>
    /\ UNCHANGED pg_others

\* the sections are done: the file is closed, return
PagesReturn ==
    /\ pg_pc = "loop"
    /\ pg_s > Len(pg_sections)
    /\ pg_pc' = "done"
    /\ UNCHANGED <<pg_script, pg_sections, pg_s, pg_p, page_counter, pg_out>>
    /\ UNCHANGED pg_others

PagesNext == PageSkip \/ PageWrite \/ PageNextSection \/ PagesReturn

SpecPages == PagesInit /\ [][PagesNext]_vars

\* the paragraphs the loops have passed, in order, that are long enough
PassedLongEnough ==
    { <<sct, para>> \in (1..Len(pg_sections)) \X (1..MaxParas) :
        /\ para <= Len(pg_sections[sct])
        /\ sct < pg_s \/ (sct = pg_s /\ para < pg_p)
        /\ pg_sections[sct][para] >= MinParagraphChars }

\* C29: the records written carry the page numbers 1, 2, ..., N in the
\* order of writing; the counter is one more than the number of records
\* written, so a skipped paragraph takes no number; there is one record for
\* each paragraph of at least 5 characters passed, and no two records have
\* the same page.
C29_PagesInSequence ==
    /\ \A k \in 1..Len(pg_out) : pg_out[k].page = k
    /\ pg_pc # "idle" => page_counter = Len(pg_out) + 1
    /\ { <<pg_out[k].section, pg_out[k].para>> : k \in 1..Len(pg_out) } = PassedLongEnough
    /\ Len(pg_out) = Cardinality(PassedLongEnough)
    /\ \A j, k \in 1..Len(pg_out) :
          (j < k) => \/ pg_out[j].section < pg_out[k].section
                     \/ /\ pg_out[j].section = pg_out[k].section
                        /\ pg_out[j].para < pg_out[k].para

\* C29: a section whose first paragraph is written and whose second is too
\* short, then a section whose first paragraph is too short and whose
\* second is written with page 2.
C29_Witness ==
    /\ pg_pc = "done"
    /\ Len(pg_sections) = 2
    /\ pg_sections[1] = <<MinParagraphChars, MinParagraphChars - 1>>
    /\ pg_sections[2] = <<0, MinParagraphChars>>
    /\ Len(pg_out) = 2
    /\ pg_out[2] = [section |-> 2, para |-> 2, page |-> 2, length |-> MinParagraphChars]

=============================================================================
